---- MODULE Spec2Model ----
(***************************************************************************)
(* Glass Shadow runtime core: mode state machine, vitals, NPC awareness    *)
(* and the GlassShadow game loop (room entry, detection, terminal states). *)
(* Objects are records, methods are operators from a receiver record to    *)
(* the updated record plus the returned value and the emitted events.      *)
(***************************************************************************)
EXTENDS Integers, Sequences, FiniteSets, TLC

VARIABLES
  mm,        \* a stand-alone ModeManager (with its pending lock timers)
  mmOp,      \* the last operation applied to mm, with its arguments and result
  vit,       \* a stand-alone VitalsSystem and a GameState player.vitals object
  vitOp,     \* the last operation applied to vit
  npc,       \* a stand-alone NPC
  npcOp,     \* the last operation applied to npc
  game,      \* the GlassShadow application object
  gameOp,    \* the last operation applied to game
  pm,        \* a stand-alone PriorityManager
  pmOp,      \* the last call on pm: the items appended, the list returned
  player,    \* a stand-alone Player entity with its PlayerVitals
  playerOp,  \* the last operation applied to player
  dm,        \* a stand-alone DisplayManager
  dmOp,      \* the last condition notification delivered to dm
  gs,        \* a stand-alone GameState, a VitalsSystem, and what was last serialized
  gsOp,      \* the last operation applied to gs
  card,      \* a registered display Card and the priorities its DisplayManager holds
  cardOp,    \* last frame of the display loop
  dlg,       \* the open dialogue: the mode that was active just before it began
  dlgOp,     \* the last dialogue that ended: the mode before it and the mode after
  mack,      \* a stand-alone Mack advisor and its LLM requests in flight
  mackOp     \* the last call on mack

vars == <<mm, mmOp, vit, vitOp, npc, npcOp, game, gameOp, pm, pmOp, player, playerOp,
          dm, dmOp, gs, gsOp, card, cardOp, dlg, dlgOp, mack, mackOp>>

Null == "null"

Min(a, b) == IF a < b THEN a ELSE b
Max(a, b) == IF a > b THEN a ELSE b

SetMin(S) == CHOOSE x \in S : \A y \in S : x <= y

\* ---------------------------------------------------------------- bounds
\* Largest slice of time one step of the clock lets pass (ms).
TimeStep == 1500
\* Longest history stack the model lets pushToStack build.
MaxStack == 2

\* ------------------------------------------------------------- constants
DEFAULT_LOCK_DURATION == 300

GAME_PHASES == {"exploration", "dialogue", "combat", "stealth", "cutscene", "puzzle"}

CARD_IDS == {"action-palette", "inventory", "map", "vitals", "sloan",
             "environment", "dialogue", "combat"}

CardStates(expanded, standard, minimized) ==
  [c \in CARD_IDS |->
     IF c \in expanded THEN "expanded"
     ELSE IF c \in standard THEN "standard"
     ELSE IF c \in minimized THEN "minimized"
     ELSE "collapsed"]

\* MODES: the static descriptor of every mode.
MODES ==
  [m \in GAME_PHASES |->
    CASE m = "exploration" ->
           [name |-> "Exploration",
            cardStates |-> CardStates({}, {"action-palette", "vitals", "sloan", "environment"},
                                      {"inventory", "map"}),
            allowedActions |-> {"look", "examine", "listen", "search", "move", "sneak", "run",
                                "hide", "take", "use", "hack", "lockpick", "talk", "distract"}]
      [] m = "dialogue" ->
           [name |-> "Dialogue",
            cardStates |-> CardStates({"dialogue"}, {}, {"vitals", "sloan"}),
            allowedActions |-> {"talk", "persuade", "intimidate", "distract", "flee"}]
      [] m = "combat" ->
           [name |-> "Combat",
            cardStates |-> CardStates({"vitals", "combat"}, {}, {"inventory", "sloan"}),
            allowedActions |-> {"attack", "subdue", "flee", "hide", "use"}]
      [] m = "stealth" ->
           [name |-> "Stealth",
            cardStates |-> CardStates({"vitals"}, {"map"}, {"sloan", "environment"}),
            allowedActions |-> {"sneak", "hide", "flee", "distract", "subdue"}]
      [] m = "puzzle" ->
           [name |-> "Puzzle",
            cardStates |-> CardStates({}, {"inventory", "sloan"}, {"vitals"}),
            allowedActions |-> {"use", "combine", "examine"}]
      [] m = "cutscene" ->
           [name |-> "Cutscene",
            cardStates |-> CardStates({}, {}, {}),
            allowedActions |-> {}]]

\* ----------------------------------------------------------- ModeManager
\* new ModeManager(eventBus); lockTimers holds the remaining time of every
\* pending setTimeout started by transitionTo.
NewModeManager ==
  [currentMode |-> "exploration",
   previousMode |-> Null,
   modeStack |-> <<>>,
   transitionLocked |-> FALSE,
   lockTimers |-> {}]

\* What a method call leaves behind: the receiver, the returned value, the
\* events it emitted on the event bus.
Outcome(self, ret, events) == [self |-> self, ret |-> ret, events |-> events]

getCurrentMode(m) == MODES[m.currentMode]

isActionAllowed(m, actionVerb) == actionVerb \in getCurrentMode(m).allowedActions

\* options.lockDuration || 300
LockDurationOf(options) ==
  IF options.lockDuration = 0 THEN DEFAULT_LOCK_DURATION ELSE options.lockDuration

NoOptions == [pushToStack |-> FALSE, lockDuration |-> 0]
PushOptions == [pushToStack |-> TRUE, lockDuration |-> 0]

\* transitionTo without its first line, the check of the transition lock.
transitionTo_NoLockCheck(m, newMode, options) ==
  IF newMode \notin DOMAIN MODES THEN Outcome(m, FALSE, <<>>)
  ELSE IF m.currentMode = newMode THEN Outcome(m, FALSE, <<>>)
  ELSE
    LET fromMode == m.currentMode
        toMode == newMode
        stack == IF options.pushToStack THEN Append(m.modeStack, fromMode) ELSE m.modeStack
    IN Outcome([m EXCEPT !.modeStack = stack,
                         !.previousMode = fromMode,
                         !.currentMode = toMode,
                         !.transitionLocked = TRUE,
                         !.lockTimers = @ \cup {LockDurationOf(options)}],
               TRUE,
               <<[type |-> "mode:changed", from |-> fromMode, to |-> toMode,
                  cardStates |-> MODES[toMode].cardStates]>>)

\* transitionTo with the push to the stack moved above the three checks.
transitionTo_PushFirst(m, newMode, options) ==
  LET fromMode == m.currentMode
      toMode == newMode
      stack == IF options.pushToStack THEN Append(m.modeStack, fromMode) ELSE m.modeStack
      pushed == [m EXCEPT !.modeStack = stack]
  IN IF m.transitionLocked THEN Outcome(pushed, FALSE, <<>>)
     ELSE IF newMode \notin DOMAIN MODES THEN Outcome(pushed, FALSE, <<>>)
     ELSE IF m.currentMode = newMode THEN Outcome(pushed, FALSE, <<>>)
     ELSE Outcome([pushed EXCEPT !.previousMode = fromMode,
                                 !.currentMode = toMode,
                                 !.transitionLocked = TRUE,
                                 !.lockTimers = @ \cup {LockDurationOf(options)}],
                  TRUE,
                  <<[type |-> "mode:changed", from |-> fromMode, to |-> toMode,
                     cardStates |-> MODES[toMode].cardStates]>>)

\* transitionTo that does not record the outgoing mode as previousMode.
transitionTo_NoPrevious(m, newMode, options) ==
  IF m.transitionLocked THEN Outcome(m, FALSE, <<>>)
  ELSE IF newMode \notin DOMAIN MODES THEN Outcome(m, FALSE, <<>>)
  ELSE IF m.currentMode = newMode THEN Outcome(m, FALSE, <<>>)
  ELSE
    LET fromMode == m.currentMode
        toMode == newMode
        stack == IF options.pushToStack THEN Append(m.modeStack, fromMode) ELSE m.modeStack
    IN Outcome([m EXCEPT !.modeStack = stack,
                         !.currentMode = toMode,
                         !.transitionLocked = TRUE,
                         !.lockTimers = @ \cup {LockDurationOf(options)}],
               TRUE,
               <<[type |-> "mode:changed", from |-> fromMode, to |-> toMode,
                  cardStates |-> MODES[toMode].cardStates]>>)

transitionTo(m, newMode, options) ==
  IF m.transitionLocked THEN Outcome(m, FALSE, <<>>)
  ELSE IF newMode \notin DOMAIN MODES THEN Outcome(m, FALSE, <<>>)
  ELSE IF m.currentMode = newMode THEN Outcome(m, FALSE, <<>>)
  ELSE
    LET fromMode == m.currentMode
        toMode == newMode
        stack == IF options.pushToStack THEN Append(m.modeStack, fromMode) ELSE m.modeStack
    IN Outcome([m EXCEPT !.modeStack = stack,
                         !.previousMode = fromMode,
                         !.currentMode = toMode,
                         !.transitionLocked = TRUE,
                         !.lockTimers = @ \cup {LockDurationOf(options)}],
               TRUE,
               <<[type |-> "mode:changed", from |-> fromMode, to |-> toMode,
                  cardStates |-> MODES[toMode].cardStates]>>)

returnToPrevious(m) ==
  IF m.previousMode # Null THEN transitionTo(m, m.previousMode, NoOptions)
  ELSE Outcome(m, FALSE, <<>>)

\* popMode that reads the top of the stack without removing it.
popMode_Peek(m) ==
  IF Len(m.modeStack) > 0
  THEN transitionTo(m, m.modeStack[Len(m.modeStack)], NoOptions)
  ELSE Outcome(m, FALSE, <<>>)

popMode(m) ==
  IF Len(m.modeStack) > 0
  THEN LET mode == m.modeStack[Len(m.modeStack)]
           popped == [m EXCEPT !.modeStack = SubSeq(@, 1, Len(@) - 1)]
       IN transitionTo(popped, mode, NoOptions)
  ELSE Outcome(m, FALSE, <<>>)

reset(m) ==
  LET cleared == [m EXCEPT !.modeStack = <<>>, !.previousMode = Null]
      out == transitionTo(cleared, "exploration", NoOptions)
  IN Outcome(out.self, Null, out.events)

\* The setTimeout callback of transitionTo: the timer that is due fires.
LockTimerFired(m) ==
  [m EXCEPT !.transitionLocked = FALSE, !.lockTimers = @ \ {0}]

\* Timers: a set of remaining times; time d passes for all of them.
TimersAfter(timers, d) == {t - d : t \in timers}

\* The time that may pass next: at most TimeStep, never past a pending timer.
Slice(timers) == IF timers = {} THEN TimeStep ELSE Min(TimeStep, SetMin(timers))

\* ---------------------------------------------------------- VitalsSystem
\* Vitals are stored in half points, the resolution of the stamina
\* regeneration (0.5 per tick): Pt(x) is x points.
Pt(x) == 2 * x

VITAL_THRESHOLDS ==
  [STRESS |-> [LOW |-> Pt(30), MEDIUM |-> Pt(50), HIGH |-> Pt(70), CRITICAL |-> Pt(90)],
   HEALTH |-> [HEALTHY |-> Pt(70), HURT |-> Pt(50), WOUNDED |-> Pt(30), CRITICAL |-> Pt(10)],
   DETECTION |-> [SAFE |-> Pt(20), NOTICED |-> Pt(40), SUSPICIOUS |-> Pt(60),
                  SPOTTED |-> Pt(80), CAUGHT |-> Pt(100)]]

\* CONDITION_EFFECTS['injured'].effects.bleedRate
BleedRate == Pt(2)

AutoConditions == {"high-stress", "injured", "exhausted", "panicked"}

\* new VitalsSystem(config): fields absent from config take the defaults.
NewVitals(health, maxHealth) ==
  [health |-> health, maxHealth |-> maxHealth,
   stamina |-> Pt(100), maxStamina |-> Pt(100),
   stress |-> 0, detection |-> 0,
   conditions |-> {}]

updateConditions(v) ==
  LET kept == v.conditions \ AutoConditions
      derived ==
        (IF v.stress > VITAL_THRESHOLDS.STRESS.HIGH THEN {"high-stress"} ELSE {})
        \cup (IF v.stress > VITAL_THRESHOLDS.STRESS.CRITICAL THEN {"panicked"} ELSE {})
        \cup (IF v.health < VITAL_THRESHOLDS.HEALTH.WOUNDED THEN {"injured"} ELSE {})
        \cup (IF v.stamina < Pt(20) THEN {"exhausted"} ELSE {})
  IN [v EXCEPT !.conditions = kept \cup derived]

\* modifyVital with Math.max(0, ...) left out: only the upper bound is kept.
modifyVital_NoFloor(v, vital, amount) ==
  LET changed ==
        CASE vital = "health" -> [v EXCEPT !.health = Min(v.maxHealth, v.health + amount)]
          [] vital = "stamina" -> [v EXCEPT !.stamina = Min(v.maxStamina, v.stamina + amount)]
          [] vital = "stress" -> [v EXCEPT !.stress = Min(Pt(100), v.stress + amount)]
          [] vital = "detection" -> [v EXCEPT !.detection = Min(Pt(100), v.detection + amount)]
          [] OTHER -> v
  IN Outcome(updateConditions(changed), changed[vital], <<>>)

\* modifyVital(vital, amount): returns this[vital].
modifyVital(v, vital, amount) ==
  LET changed ==
        CASE vital = "health" ->
               [v EXCEPT !.health = Max(0, Min(v.maxHealth, v.health + amount))]
          [] vital = "stamina" ->
               [v EXCEPT !.stamina = Max(0, Min(v.maxStamina, v.stamina + amount))]
          [] vital = "stress" ->
               [v EXCEPT !.stress = Max(0, Min(Pt(100), v.stress + amount))]
          [] vital = "detection" ->
               [v EXCEPT !.detection = Max(0, Min(Pt(100), v.detection + amount))]
          [] OTHER -> v
  IN Outcome(updateConditions(changed), changed[vital], <<>>)

\* tick() with the stress decay also running at the suspicious threshold.
VitalsTick_DecayAtThreshold(v) ==
  LET bled == IF "injured" \in v.conditions
              THEN modifyVital(v, "health", -BleedRate).self ELSE v
      calmed == IF bled.detection <= VITAL_THRESHOLDS.DETECTION.SUSPICIOUS
                THEN modifyVital(bled, "stress", -Pt(1)).self ELSE bled
  IN modifyVital(calmed, "stamina", 1).self

\* VitalsSystem.tick(): bleeding, stress decay when safe, stamina recovery
\* (no timed effect is ever applied, the effects map stays empty).
VitalsTick(v) ==
  LET bled == IF "injured" \in v.conditions
              THEN modifyVital(v, "health", -BleedRate).self ELSE v
      calmed == IF bled.detection < VITAL_THRESHOLDS.DETECTION.SUSPICIOUS
                THEN modifyVital(bled, "stress", -Pt(1)).self ELSE bled
  IN modifyVital(calmed, "stamina", 1).self

\* ------------------------------------------------------------- NPCVitals
NewNPCVitals(health, awareness, suspicion) ==
  [f \in DOMAIN NewVitals(health, Pt(100)) \cup {"awareness", "suspicion", "alertCooldown"} |->
     CASE f = "awareness" -> awareness
       [] f = "suspicion" -> suspicion
       [] f = "alertCooldown" -> 0
       [] OTHER -> NewVitals(health, Pt(100))[f]]

addSuspicion(v, amount) ==
  LET s == Min(100, v.suspicion + amount)
      a1 == IF s > 30 /\ v.awareness = "unaware" THEN "suspicious" ELSE v.awareness
      a2 == IF s > 70 /\ a1 = "suspicious" THEN "alert" ELSE a1
      a3 == IF s >= 100 THEN "hostile" ELSE a2
  IN [v EXCEPT !.suspicion = s, !.awareness = a3]

\* decaySuspicion(amount = 1)
decaySuspicion(v) ==
  IF v.alertCooldown > 0 THEN [v EXCEPT !.alertCooldown = @ - 1]
  ELSE LET s == Max(0, v.suspicion - 1)
       IN [v EXCEPT !.suspicion = s,
                    !.awareness = IF s < 30 /\ @ = "suspicious" THEN "unaware" ELSE @]

canAct(v) == v.health > 0 /\ "unconscious" \notin v.conditions

\* ------------------------------------------------------------------- NPC
\* new NPC(config). suspicion is counted in whole points. Position, facing
\* and the patrol/work timers play no part in awareness and are left out;
\* spotted and handled are the _alreadySpotted and _engagementHandled marks
\* the game hangs on the object, state is the field checkNPCDetection reads
\* (nothing ever assigns it).
NewNPC(id, type, location, health, awareness, dialogueId) ==
  [id |-> id, type |-> type, location |-> location,
   vitals |-> NewNPCVitals(health, "unaware", 0),
   awareness |-> awareness, engaged |-> FALSE,
   dialogueId |-> dialogueId,
   spotted |-> FALSE, handled |-> FALSE, state |-> Null]

\* detectionRange in thousandths: 5, times 0.3 hidden, 0.2 from behind, 0.7 loud.
DetectionRange(playerHidden, inFront, environmentNoise) ==
  (5 * (IF playerHidden THEN 3 ELSE 10)
     * (IF inFront THEN 10 ELSE 2)
     * (IF environmentNoise = "loud" THEN 7 ELSE 10))

\* detectPlayer(playerPosition, playerHidden, environmentNoise); the player
\* position enters as its distance and whether it lies in the facing cone.
detectPlayer(n, distance, playerHidden, inFront, environmentNoise) ==
  IF ~canAct(n.vitals) THEN Outcome(n, FALSE, <<>>)
  ELSE IF distance * 1000 <= DetectionRange(playerHidden, inFront, environmentNoise)
  THEN LET suspicionIncrease == Max(5, 30 - distance * 5)
           v == addSuspicion(n.vitals, suspicionIncrease)
           engage == n.awareness \in {"hostile", "alert"}
       IN Outcome([n EXCEPT !.vitals = v,
                            !.engaged = IF engage THEN TRUE ELSE @],
                  TRUE, <<>>)
  ELSE Outcome(n, FALSE, <<>>)

updateAwareness(n) ==
  LET suspicion == n.vitals.suspicion
  IN IF suspicion >= 100 THEN [n EXCEPT !.awareness = "hostile"]
     ELSE IF suspicion >= 70 THEN [n EXCEPT !.awareness = "alert"]
     ELSE IF suspicion >= 30 THEN [n EXCEPT !.awareness = "suspicious"]
     ELSE IF suspicion < 10 /\ n.awareness = "suspicious"
          THEN [n EXCEPT !.awareness = "unaware"]
     ELSE n

\* NPC.tick(gameState)
NPCTick(n) ==
  IF ~canAct(n.vitals) THEN n
  ELSE LET decayed == IF ~n.engaged /\ n.awareness # "hostile"
                      THEN [n EXCEPT !.vitals = decaySuspicion(@)] ELSE n
           aware == updateAwareness(decayed)
       IN [aware EXCEPT !.vitals = VitalsTick(@)]

takeDamage(n, amount) ==
  LET v == modifyVital(n.vitals, "health", -amount).self
  IN IF v.health <= 0
     THEN [n EXCEPT !.vitals = [v EXCEPT !.conditions = @ \cup {"unconscious"}],
                    !.engaged = FALSE]
     ELSE [n EXCEPT !.vitals = v]

\* subdue(): returns the inventory, which the model does not carry.
subdue(n) ==
  [n EXCEPT !.vitals.conditions = @ \cup {"unconscious"},
            !.engaged = FALSE,
            !.awareness = "unaware"]

\* ---------------------------------------------------------- GameState
\* GameState.updateVitals(changes): changes maps keys to deltas; keys that
\* are no own property of player.vitals are skipped.
PlayerVitalKeys == {"health", "stamina", "stress", "detection"}

updateVitals(st, changes) ==
  LET vitals == [k \in PlayerVitalKeys |->
                   IF k \in DOMAIN changes
                   THEN Max(0, Min(Pt(100), st.player.vitals[k] + changes[k]))
                   ELSE st.player.vitals[k]]
  IN [st EXCEPT !.player.vitals = vitals,
                !.sloan.connectionQuality = Max(0, Pt(100) - vitals.stress)]

\* ------------------------------------------------------- mission content
\* The room graph and the NPC placement the loaders hand to the game: a
\* lobby (the exit of the mission), an office floor and a locked server room.
ENVIRONMENTS ==
  [r \in {"lobby-main", "office-floor", "server-room"} |->
    CASE r = "lobby-main" ->
           [exits |-> <<[destination |-> "office-floor", locked |-> FALSE, keycardLevel |-> 0]>>,
            attributes |-> [lighting |-> "bright", noise |-> "normal"]]
      [] r = "office-floor" ->
           [exits |-> <<[destination |-> "lobby-main", locked |-> FALSE, keycardLevel |-> 0],
                        [destination |-> "server-room", locked |-> TRUE, keycardLevel |-> 2]>>,
            attributes |-> [lighting |-> "normal", noise |-> "normal"]]
      [] r = "server-room" ->
           [exits |-> <<[destination |-> "office-floor", locked |-> FALSE, keycardLevel |-> 0]>>,
            attributes |-> [lighting |-> "dim", noise |-> "loud"]]]

\* The NPCs of the mission in the order loadMission inserts them in the map.
NpcOrder == <<"guard-1">>
NpcIds == {NpcOrder[i] : i \in 1..Len(NpcOrder)}

MissionNpcs ==
  [id \in NpcIds |-> NewNPC(id, "guard", "office-floor", Pt(80), "unaware", Null)]

WEAPONS == {"knife", "taser", "fire-extinguisher"}

\* keycard-level<N> items and the level each carries.
KeycardLevel(item) ==
  CASE item = "keycard-level1" -> 1
    [] item = "keycard-level2" -> 2
    [] item = "keycard-level3" -> 3
    [] OTHER -> 0

\* ---------------------------------------------------------- GameState (2)
NewGameState ==
  [currentEnvironment |-> Null,
   npcs |-> MissionNpcs,
   player |-> [vitals |-> [health |-> Pt(100), stamina |-> Pt(100),
                           stress |-> 0, detection |-> 0],
               conditions |-> {},
               equipment |-> {}],
   sloan |-> [connectionQuality |-> Pt(100)],
   objectives |-> [o \in {"obj-extract-logs", "obj-extract-exit"} |-> FALSE],
   phase |-> "exploration",
   flags |-> {}]

\* flags holds the keys whose value is true (setFlag is only called with true).
hasFlag(st, key) == key \in st.flags
setFlag(st, key) == [st EXCEPT !.flags = @ \cup {key}]
addEquipment(st, itemId) == [st EXCEPT !.player.equipment = @ \cup {itemId}]

\* ----------------------------------------------------------- GlassShadow
DETECTION_GRACE_PERIOD == 3000
DETECTION_CHECK_INTERVAL == 1500
DETECTION_BASE_CHANCE == 8
DETECTION_INCREMENT == 5

\* How many invocations of a terminal handler the model tells apart.
MaxCalls == 2
\* What a frame notes of the detection check it runs: whether one ran, the
\* time since the latest room entry, the mode, and the increments it made.
NoCheck == [ran |-> FALSE, sinceEntry |-> 0, sinceCheck |-> 0, mode |-> Null, increments |-> 0]

\* How many inputs (player actions and external events) one run takes.
MaxInputs == 4

\* JavaScript values where the code compares across types: === between a
\* string and an object is false.
JsString(s) == [type |-> "string", value |-> s]
JsObject(o) == [type |-> "object", value |-> o]
StrictEquals(a, b) == a.type = b.type /\ a.value = b.value
Includes(array, v) == \E i \in 1..Len(array) : StrictEquals(array[i], v)

\* stop(): cancelAnimationFrame and forget the frame id.
stop(g) == IF g.animationId # Null THEN [g EXCEPT !.animationId = Null] ELSE g

\* handleGameOver without the early return on the game_over flag.
handleGameOver_NoGuard(g) ==
  stop([g EXCEPT !.gameOverCalls = Min(MaxCalls, @ + 1),
                 !.state = setFlag(@, "game_over"),
                 !.gameOverSets = @ + 1,
                 !.failedShown = @ + 1])

handleGameOver(g) ==
  LET called == [g EXCEPT !.gameOverCalls = Min(MaxCalls, @ + 1)]
  IN IF hasFlag(called.state, "game_over") THEN called
     ELSE stop([called EXCEPT !.state = setFlag(@, "game_over"),
                              !.gameOverSets = @ + 1,
                              !.failedShown = @ + 1])

handleMissionComplete(g) ==
  IF hasFlag(g.state, "mission_complete") THEN g
  ELSE stop([g EXCEPT !.state = setFlag(@, "mission_complete"),
                      !.completeShown = @ + 1])

InRoom(g, roomId) == {id \in NpcIds : g.state.npcs[id].location = roomId}

enterRoom(g, roomId) ==
  IF roomId \notin DOMAIN ENVIRONMENTS THEN g
  ELSE [g EXCEPT
          !.state.currentEnvironment = roomId,
          !.detectionEnabled = FALSE,
          !.sinceEntry = 0,
          !.state.npcs = [id \in NpcIds |->
                            IF @[id].location = roomId
                            THEN [@[id] EXCEPT !.spotted = FALSE, !.handled = FALSE]
                            ELSE @[id]],
          !.graceTimers = @ \cup {DETECTION_GRACE_PERIOD}]

\* A modeManager call made by the game: only the manager changes.
WithMode(g, out) == [g EXCEPT !.modeManager = out.self]

waitAction(g) ==
  [g EXCEPT !.state = updateVitals(@, [stress |-> -Pt(10), stamina |-> Pt(5)])]

handleDialogueFailed(g, npcId) ==
  LET currentDetection == g.state.player.vitals.detection
      g1 == [g EXCEPT !.state = updateVitals(@, [detection |-> Pt(30), stress |-> Pt(20)])]
  IN IF currentDetection + Pt(30) >= Pt(100) THEN handleGameOver(g1)
     ELSE LET g2 == IF npcId \in NpcIds
                    THEN [g1 EXCEPT !.state.npcs[npcId].awareness = "hostile",
                                    !.state.npcs[npcId].engaged = TRUE]
                    ELSE g1
          IN WithMode(g2, transitionTo(g2.modeManager, "combat", PushOptions))

attemptSubdue(g, npcId, roll) ==
  IF npcId \notin NpcIds THEN g
  ELSE IF g.state.player.vitals.stamina < Pt(30) THEN g
  ELSE
    LET n == g.state.npcs[npcId]
        combatSkill == 40
        difficulty == IF n.awareness = "hostile" THEN 60 ELSE 40
        g1 == [g EXCEPT !.state = updateVitals(@, [stamina |-> -Pt(30), stress |-> Pt(15)])]
    IN IF roll < combatSkill + 20 - difficulty
       THEN LET g2 == [g1 EXCEPT !.state.npcs[npcId] = subdue(@)]
            IN WithMode(g2, returnToPrevious(g2.modeManager))
       ELSE [g1 EXCEPT
               !.state = updateVitals(@, [health |-> -Pt(20), stress |-> Pt(25)]),
               !.state.npcs[npcId].awareness = "hostile",
               !.state.npcs[npcId].vitals = addSuspicion(@, 100)]

UnlockedExits(roomId) ==
  IF roomId \in DOMAIN ENVIRONMENTS
  THEN SelectSeq(ENVIRONMENTS[roomId].exits, LAMBDA e : ~e.locked)
  ELSE <<>>

attemptFlee(g) ==
  LET exits == UnlockedExits(g.state.currentEnvironment)
  IN IF Len(exits) = 0 THEN g
     ELSE IF g.state.player.vitals.stamina < Pt(25) THEN g
     ELSE
       LET g1 == [g EXCEPT !.state = updateVitals(@, [stamina |-> -Pt(25), stress |-> Pt(20),
                                                        detection |-> Pt(15)])]
           here == g1.state.currentEnvironment
           g2 == [g1 EXCEPT !.state.npcs =
                    [id \in NpcIds |->
                       IF @[id].location = here
                       THEN [@[id] EXCEPT !.engaged = FALSE, !.handled = FALSE]
                       ELSE @[id]]]
           nearestExit == exits[1]
           g3 == WithMode(g2, returnToPrevious(g2.modeManager))
       IN enterRoom(g3, nearestExit.destination)

attemptAttack(g, npcId) ==
  IF npcId \notin NpcIds THEN g
  ELSE
    LET hasWeapon == g.state.player.equipment \cap WEAPONS # {}
        damage == IF hasWeapon THEN 40 ELSE 20
        g1 == [g EXCEPT !.state = updateVitals(@, [stamina |-> -Pt(20), stress |-> Pt(30)])]
        g2 == [g1 EXCEPT !.state.npcs[npcId] = takeDamage(@, Pt(damage))]
    IN IF g2.state.npcs[npcId].vitals.health <= 0
       THEN WithMode(g2, returnToPrevious(g2.modeManager))
       ELSE [g2 EXCEPT !.state = updateVitals(@, [health |-> -Pt(15)])]

ExitTo(roomId, destination) ==
  IF roomId \in DOMAIN ENVIRONMENTS
  THEN SelectSeq(ENVIRONMENTS[roomId].exits, LAMBDA e : e.destination = destination)
  ELSE <<>>

moveToRoom(g, roomId) ==
  LET found == ExitTo(g.state.currentEnvironment, roomId)
  IN IF Len(found) = 0 THEN g
     ELSE
       LET exit == found[1]
           hasKey == \E item \in g.state.player.equipment :
                        KeycardLevel(item) > 0 /\ KeycardLevel(item) >= exit.keycardLevel
       IN IF exit.locked /\ ~hasKey THEN g
          ELSE enterRoom([g EXCEPT !.state = updateVitals(@, [stamina |-> -Pt(5)])], roomId)

sneakToRoom(g, roomId) ==
  enterRoom([g EXCEPT !.state = updateVitals(@, [stamina |-> -Pt(10)])], roomId)

takeItem(g, itemId) ==
  IF itemId \in g.state.player.equipment THEN g
  ELSE LET g1 == [g EXCEPT !.state = addEquipment(@, itemId)]
       IN IF itemId = "access-logs"
          THEN [g1 EXCEPT !.state = setFlag(@, "logs_acquired"),
                          !.state.objectives["obj-extract-logs"] = TRUE]
          ELSE g1

\* executeAction(data): the switch on data.verb. talk, look and listen only
\* speak or emit dialogue:start; an unknown verb is logged.
executeAction(g, verb, target, roll) ==
  CASE verb = "move" -> moveToRoom(g, target)
    [] verb = "sneak" -> sneakToRoom(g, target)
    [] verb = "take" -> takeItem(g, target)
    [] verb = "wait" -> waitAction(g)
    [] verb = "subdue" -> attemptSubdue(g, target, roll)
    [] verb = "flee" -> attemptFlee(g)
    [] verb = "attack" -> attemptAttack(g, target)
    [] OTHER -> g

handleNPCEngagement(g, npcId) ==
  LET n == g.state.npcs[npcId]
  IN IF n.awareness = "hostile"
     THEN WithMode(g, transitionTo(g.modeManager, "combat", PushOptions))
     ELSE IF n.dialogueId # Null \/ n.type = "guard"
     THEN WithMode(g, transitionTo(g.modeManager, "dialogue", PushOptions))
     ELSE g

DetectChance(g, n) ==
  LET env == ENVIRONMENTS[g.state.currentEnvironment]
  IN DETECTION_BASE_CHANCE
     + (IF n.awareness = "alert" THEN 10 ELSE 0)
     + (IF n.awareness = "hostile" THEN 20 ELSE 0)
     + (IF env.attributes.lighting = "bright" THEN 5 ELSE 0)
     - (IF env.attributes.lighting = "dim" THEN 5 ELSE 0)
     - (IF "hidden" \in g.state.player.conditions THEN 15 ELSE 0)
     + (IF g.state.player.vitals.stress > Pt(50) THEN 5 ELSE 0)
     - (IF env.attributes.noise = "loud" THEN 5 ELSE 0)
     + (IF env.attributes.noise = "silent" THEN 10 ELSE 0)

\* Spotted as before the incremental detection: the first spot fails the
\* mission.
Spotted_InstantFail(g, npcId) ==
  [g |-> handleGameOver([g EXCEPT !.lastCheck.increments = Min(MaxCalls, @ + 1)]),
   done |-> TRUE]

\* Spotted with the engagement threshold at 90 instead of 80.
Spotted_EngageAt90(g, npcId) ==
  LET currentDetection == g.state.player.vitals.detection
      newDetection == Min(Pt(100), currentDetection + Pt(DETECTION_INCREMENT))
      g1 == [g EXCEPT !.state.player.vitals.detection = newDetection,
                      !.lastCheck.increments = Min(MaxCalls, @ + 1)]
      n == g1.state.npcs[npcId]
  IN IF newDetection >= Pt(100) THEN [g |-> handleGameOver(g1), done |-> TRUE]
     ELSE IF newDetection >= Pt(90) /\ ~n.handled
     THEN [g |-> handleNPCEngagement(
                   [g1 EXCEPT !.state.npcs[npcId].engaged = TRUE,
                              !.state.npcs[npcId].handled = TRUE], npcId),
           done |-> FALSE]
     ELSE IF newDetection >= Pt(50) /\ n.awareness # "suspicious"
     THEN [g |-> [g1 EXCEPT !.state.npcs[npcId].awareness = "suspicious",
                            !.state.npcs[npcId].spotted = TRUE],
           done |-> FALSE]
     ELSE IF newDetection >= Pt(30) /\ ~n.spotted
     THEN [g |-> [g1 EXCEPT !.state.npcs[npcId].awareness = "alert",
                            !.state.npcs[npcId].spotted = TRUE],
           done |-> FALSE]
     ELSE [g |-> g1, done |-> FALSE]

\* Spotted without the _engagementHandled test of the engagement branch.
Spotted_NoHandledGuard(g, npcId) ==
  LET currentDetection == g.state.player.vitals.detection
      newDetection == Min(Pt(100), currentDetection + Pt(DETECTION_INCREMENT))
      g1 == [g EXCEPT !.state.player.vitals.detection = newDetection,
                      !.lastCheck.increments = Min(MaxCalls, @ + 1)]
      n == g1.state.npcs[npcId]
  IN IF newDetection >= Pt(100) THEN [g |-> handleGameOver(g1), done |-> TRUE]
     ELSE IF newDetection >= Pt(80)
     THEN [g |-> handleNPCEngagement(
                   [g1 EXCEPT !.state.npcs[npcId].engaged = TRUE,
                              !.state.npcs[npcId].handled = TRUE], npcId),
           done |-> FALSE]
     ELSE IF newDetection >= Pt(50) /\ n.awareness # "suspicious"
     THEN [g |-> [g1 EXCEPT !.state.npcs[npcId].awareness = "suspicious",
                            !.state.npcs[npcId].spotted = TRUE],
           done |-> FALSE]
     ELSE IF newDetection >= Pt(30) /\ ~n.spotted
     THEN [g |-> [g1 EXCEPT !.state.npcs[npcId].awareness = "alert",
                            !.state.npcs[npcId].spotted = TRUE],
           done |-> FALSE]
     ELSE [g |-> g1, done |-> FALSE]

\* Spotted that raises detection straight to the failure threshold.
Spotted_JumpTo100(g, npcId) ==
  LET newDetection == Pt(100)
      g1 == [g EXCEPT !.state.player.vitals.detection = newDetection,
                      !.lastCheck.increments = Min(MaxCalls, @ + 1)]
  IN [g |-> handleGameOver(g1), done |-> TRUE]

\* One successful roll of checkNPCDetection for one NPC, up to the threshold
\* responses; done tells whether the loop returned (mission failed).
Spotted(g, npcId) ==
  LET currentDetection == g.state.player.vitals.detection
      newDetection == Min(Pt(100), currentDetection + Pt(DETECTION_INCREMENT))
      g1 == [g EXCEPT !.state.player.vitals.detection = newDetection,
                      !.lastCheck.increments = Min(MaxCalls, @ + 1)]
      n == g1.state.npcs[npcId]
  IN IF newDetection >= Pt(100) THEN [g |-> handleGameOver(g1), done |-> TRUE]
     ELSE IF newDetection >= Pt(80) /\ ~n.handled
     THEN [g |-> handleNPCEngagement(
                   [g1 EXCEPT !.state.npcs[npcId].engaged = TRUE,
                              !.state.npcs[npcId].handled = TRUE], npcId),
           done |-> FALSE]
     ELSE IF newDetection >= Pt(50) /\ n.awareness # "suspicious"
     THEN [g |-> [g1 EXCEPT !.state.npcs[npcId].awareness = "suspicious",
                            !.state.npcs[npcId].spotted = TRUE],
           done |-> FALSE]
     ELSE IF newDetection >= Pt(30) /\ ~n.spotted
     THEN [g |-> [g1 EXCEPT !.state.npcs[npcId].awareness = "alert",
                            !.state.npcs[npcId].spotted = TRUE],
           done |-> FALSE]
     ELSE [g |-> g1, done |-> FALSE]

\* The loop of checkNPCDetection from the i-th NPC on; rolls[id] is the
\* Math.random() * 100 drawn for that NPC.
RECURSIVE DetectFrom(_, _, _)
DetectFrom(g, i, rolls) ==
  IF i > Len(NpcOrder) THEN g
  ELSE
    LET id == NpcOrder[i]
        n == g.state.npcs[id]
    IN IF n.location # g.state.currentEnvironment THEN DetectFrom(g, i + 1, rolls)
       ELSE IF n.state = "unconscious" \/ n.state = "subdued" THEN DetectFrom(g, i + 1, rolls)
       ELSE IF n.engaged THEN DetectFrom(g, i + 1, rolls)
       ELSE IF rolls[id] < DetectChance(g, n)
       THEN LET hit == Spotted(g, id)
            IN IF hit.done THEN hit.g ELSE DetectFrom(hit.g, i + 1, rolls)
       ELSE DetectFrom(g, i + 1, rolls)

\* checkNPCDetection(): lastCheck notes that the check ran, and when.
checkNPCDetection(g, rolls) ==
  LET noted == [g EXCEPT !.lastCheck = [ran |-> TRUE,
                                        sinceEntry |-> g.sinceEntry,
                                        sinceCheck |-> g.lastCheck.sinceCheck,
                                        mode |-> g.modeManager.currentMode,
                                        increments |-> 0]]
  IN IF noted.state.currentEnvironment \notin DOMAIN ENVIRONMENTS THEN noted
     ELSE DetectFrom(noted, 1, rolls)

\* checkWinLoseConditions without any once-only guard: the win branch shows
\* the mission-complete overlay whenever the win condition holds.
checkWinLoseConditions_Repeat(g) ==
  IF hasFlag(g.state, "game_over") THEN g
  ELSE IF g.state.player.vitals.health <= 0 THEN handleGameOver(g)
  ELSE IF hasFlag(g.state, "alarm_triggered") THEN handleGameOver(g)
  ELSE
    LET hasLogs == "access-logs" \in g.state.player.equipment
        atExit == g.state.currentEnvironment = "lobby-main"
    IN IF hasLogs /\ atExit /\ hasFlag(g.state, "logs_acquired")
       THEN stop([g EXCEPT !.state = setFlag(@, "mission_complete"),
                           !.state.objectives["obj-extract-exit"] = TRUE,
                           !.completeShown = Min(MaxCalls, @ + 1)])
       ELSE g

checkWinLoseConditions(g) ==
  IF hasFlag(g.state, "game_over") \/ hasFlag(g.state, "mission_complete") THEN g
  ELSE IF g.state.player.vitals.health <= 0 THEN handleGameOver(g)
  ELSE IF hasFlag(g.state, "alarm_triggered") THEN handleGameOver(g)
  ELSE
    LET hasLogs == "access-logs" \in g.state.player.equipment
        atExit == g.state.currentEnvironment = "lobby-main"
    IN IF hasLogs /\ atExit /\ hasFlag(g.state, "logs_acquired")
          /\ ~g.state.objectives["obj-extract-exit"]
       THEN handleMissionComplete([g EXCEPT !.state.objectives["obj-extract-exit"] = TRUE])
       ELSE g

RECURSIVE TickNpcs(_, _)
TickNpcs(g, i) ==
  IF i > Len(NpcOrder) THEN g
  ELSE TickNpcs([g EXCEPT !.state.npcs[NpcOrder[i]] = NPCTick(@)], i + 1)

\* update without the interval between detection checks.
update_NoThrottle(g, rolls) ==
  LET currentMode == JsObject(getCurrentMode(g.modeManager))
      canCheckDetection ==
        /\ g.detectionEnabled
        /\ ~Includes(<<JsString("combat"), JsString("dialogue")>>, currentMode)
      g1 == IF canCheckDetection
            THEN checkNPCDetection([g EXCEPT !.sinceCheck = 0,
                                             !.lastCheck.sinceCheck = g.sinceCheck], rolls)
            ELSE g
  IN checkWinLoseConditions(TickNpcs(g1, 1))

\* update(deltaTime): the detection gate, the NPC ticks, the win/lose check
\* (display and priority evaluation write no game state). lastCheck.sinceCheck
\* keeps now - lastDetectionCheck as it was when the gate let the check run.
update(g, rolls) ==
  LET currentMode == JsObject(getCurrentMode(g.modeManager))
      canCheckDetection ==
        /\ g.detectionEnabled
        /\ g.sinceCheck > DETECTION_CHECK_INTERVAL
        /\ ~Includes(<<JsString("combat"), JsString("dialogue")>>, currentMode)
      g1 == IF canCheckDetection
            THEN checkNPCDetection([g EXCEPT !.sinceCheck = 0,
                                             !.lastCheck.sinceCheck = g.sinceCheck], rolls)
            ELSE g
  IN checkWinLoseConditions(TickNpcs(g1, 1))

\* gameLoop(): requestAnimationFrame stores the new frame id.
gameLoop(g) == [g EXCEPT !.animationId = "frame"]

\* The requestAnimationFrame callback: update, render, gameLoop.
FrameCallback(g, rolls) == gameLoop(update(g, rolls))

\* The grace timer of enterRoom fires.
GraceTimerFired(g) ==
  [g EXCEPT !.detectionEnabled = TRUE, !.graceTimers = @ \ {0}]

\* The game after init(): the mission is loaded, its first room entered and
\* the first frame requested. lastDetectionCheck is 0, long before now.
NewGame ==
  gameLoop(enterRoom(
    [state |-> NewGameState,
     modeManager |-> NewModeManager,
     detectionEnabled |-> FALSE,
     sinceEntry |-> 0,
     sinceCheck |-> DETECTION_CHECK_INTERVAL + 1,
     graceTimers |-> {},
     animationId |-> Null,
     failedShown |-> 0,
     completeShown |-> 0,
     gameOverCalls |-> 0,
     gameOverSets |-> 0,
     inputs |-> 0,
     phase |-> 0,
     lastCheck |-> NoCheck],
    "lobby-main"))

\* ------------------------------------------------------ PriorityManager
PRIORITY_TIERS == [IMMEDIATE |-> 1, ENVIRONMENTAL |-> 2, SELF |-> 3, MODIFIER |-> 0]

CACHE_LIFETIME == 100

\* A value that may be absent (null, undefined): no element or one.
Absent == <<>>
Present(x) == <<x>>

\* new PriorityManager(); sinceEvaluation is now - lastEvaluation, which is
\* past the cache lifetime at construction (lastEvaluation = 0).
NewPriorityManager == [priorityCache |-> Absent, sinceEvaluation |-> CACHE_LIFETIME]

\* One entry of the priorities list (its data is not carried).
Item(type, tier, weight) == [type |-> type, tier |-> tier, weight |-> weight]

\* getUIModifiers(state).hasEffects
HasEffects(state) ==
  LET v == state.player.vitals
  IN \/ v.stress > VITAL_THRESHOLDS.STRESS.HIGH
     \/ v.stress >= VITAL_THRESHOLDS.STRESS.CRITICAL
     \/ v.health < VITAL_THRESHOLDS.HEALTH.WOUNDED
     \/ v.health <= VITAL_THRESHOLDS.HEALTH.CRITICAL
     \/ v.detection > VITAL_THRESHOLDS.DETECTION.SUSPICIOUS
     \/ state.player.conditions \cap {"panicked", "hidden", "adrenaline", "exhausted"} # {}

Conscious(n) == "unconscious" \notin n.vitals.conditions

getCombatants(state, npcs) ==
  SelectSeq(npcs, LAMBDA n : /\ n.location = state.currentEnvironment
                             /\ n.awareness = "hostile"
                             /\ n.engaged
                             /\ Conscious(n))

getEngagedNPCs(state, npcs) ==
  SelectSeq(npcs, LAMBDA n : /\ n.location = state.currentEnvironment
                             /\ n.engaged
                             /\ n.awareness # "unaware"
                             /\ Conscious(n))

getNearbyNPCs(state, npcs) ==
  SelectSeq(npcs, LAMBDA n : /\ n.location = state.currentEnvironment
                             /\ ~n.engaged
                             /\ Conscious(n))

\* getCriticalConditions(state).length > 0
HasCriticalConditions(state) ==
  LET v == state.player.vitals
  IN \/ v.health <= VITAL_THRESHOLDS.HEALTH.CRITICAL
     \/ v.stress >= VITAL_THRESHOLDS.STRESS.CRITICAL
     \/ v.detection >= VITAL_THRESHOLDS.DETECTION.SPOTTED
     \/ state.player.conditions \cap {"critical", "panicked", "bleeding"} # {}

\* checkObjectiveProximity(state, environment) is not null.
checkObjectiveProximity(state, environment) ==
  IF environment = Absent THEN FALSE
  ELSE \/ \E i \in DOMAIN environment[1].elements : environment[1].elements[i].isObjective
       \/ \E i \in DOMAIN state.objectives :
            /\ state.objectives[i].type = "reach"
            /\ state.objectives[i].location = environment[1].id
            /\ ~state.objectives[i].completed

\* getEnvironmentActions(state, environment).length: the exits, the
\* interactive elements and the two universal actions.
EnvironmentActionCount(environment) ==
  IF environment = Absent THEN 0
  ELSE Len(environment[1].exits)
       + Len(SelectSeq(environment[1].elements, LAMBDA el : el.interactive)) + 2

getInteractiveElements(environment) ==
  IF environment = Absent THEN <<>>
  ELSE SelectSeq(environment[1].elements, LAMBDA el : el.interactive)

\* The items evaluate() pushes, in the order it pushes them.
\* The pushes of evaluate() without the two Self items.
Appended_NoSelf(state, currentEnv, npcs) ==
  LET combatants == getCombatants(state, npcs)
      engagedNPCs == getEngagedNPCs(state, npcs)
      nearbyNPCs == getNearbyNPCs(state, npcs)
      T == PRIORITY_TIERS
  IN (IF HasEffects(state) THEN <<Item("condition-overlay", T.MODIFIER, 90)>> ELSE <<>>)
     \o (IF Len(combatants) > 0 THEN <<Item("combat", T.IMMEDIATE, 100)>> ELSE <<>>)
     \o (IF Len(engagedNPCs) > 0 /\ Len(combatants) = 0
         THEN <<Item("npc-interaction", T.IMMEDIATE, 95)>> ELSE <<>>)
     \o (IF HasCriticalConditions(state)
         THEN <<Item("critical-status", T.IMMEDIATE, 85)>> ELSE <<>>)
     \o (IF Len(nearbyNPCs) > 0 /\ Len(engagedNPCs) = 0
         THEN <<Item("npc-nearby", T.ENVIRONMENTAL, 60)>> ELSE <<>>)
     \o (IF checkObjectiveProximity(state, currentEnv)
         THEN <<Item("objective-near", T.ENVIRONMENTAL, 70)>> ELSE <<>>)
     \o (IF EnvironmentActionCount(currentEnv) > 0
         THEN <<Item("environment-actions", T.ENVIRONMENTAL, 50)>> ELSE <<>>)
     \o (IF Len(getInteractiveElements(currentEnv)) > 0
         THEN <<Item("interactive-elements", T.ENVIRONMENTAL, 45)>> ELSE <<>>)

Appended(state, currentEnv, npcs) ==
  LET combatants == getCombatants(state, npcs)
      engagedNPCs == getEngagedNPCs(state, npcs)
      nearbyNPCs == getNearbyNPCs(state, npcs)
      T == PRIORITY_TIERS
  IN (IF HasEffects(state) THEN <<Item("condition-overlay", T.MODIFIER, 90)>> ELSE <<>>)
     \o (IF Len(combatants) > 0 THEN <<Item("combat", T.IMMEDIATE, 100)>> ELSE <<>>)
     \o (IF Len(engagedNPCs) > 0 /\ Len(combatants) = 0
         THEN <<Item("npc-interaction", T.IMMEDIATE, 95)>> ELSE <<>>)
     \o (IF HasCriticalConditions(state)
         THEN <<Item("critical-status", T.IMMEDIATE, 85)>> ELSE <<>>)
     \o (IF Len(nearbyNPCs) > 0 /\ Len(engagedNPCs) = 0
         THEN <<Item("npc-nearby", T.ENVIRONMENTAL, 60)>> ELSE <<>>)
     \o (IF checkObjectiveProximity(state, currentEnv)
         THEN <<Item("objective-near", T.ENVIRONMENTAL, 70)>> ELSE <<>>)
     \o (IF EnvironmentActionCount(currentEnv) > 0
         THEN <<Item("environment-actions", T.ENVIRONMENTAL, 50)>> ELSE <<>>)
     \o (IF Len(getInteractiveElements(currentEnv)) > 0
         THEN <<Item("interactive-elements", T.ENVIRONMENTAL, 45)>> ELSE <<>>)
     \o <<Item("inventory", T.SELF, 20), Item("vitals", T.SELF, 15)>>

\* Array.prototype.sort with (a, b) => b.weight - a.weight: a stable sort,
\* here by insertion behind every item that does not weigh less.
RECURSIVE InsertByWeight(_, _)
InsertByWeight(sorted, item) ==
  IF sorted = <<>> THEN <<item>>
  ELSE IF Head(sorted).weight >= item.weight
  THEN <<Head(sorted)>> \o InsertByWeight(Tail(sorted), item)
  ELSE <<item>> \o sorted

RECURSIVE SortFrom(_, _, _)
SortFrom(sorted, items, i) ==
  IF i > Len(items) THEN sorted
  ELSE SortFrom(InsertByWeight(sorted, items[i]), items, i + 1)

\* The comparator with its operands swapped: a.weight - b.weight.
RECURSIVE InsertAscending(_, _)
InsertAscending(sorted, item) ==
  IF sorted = <<>> THEN <<item>>
  ELSE IF Head(sorted).weight <= item.weight
  THEN <<Head(sorted)>> \o InsertAscending(Tail(sorted), item)
  ELSE <<item>> \o sorted

RECURSIVE AscendingFrom(_, _, _)
AscendingFrom(sorted, items, i) ==
  IF i > Len(items) THEN sorted
  ELSE AscendingFrom(InsertAscending(sorted, items[i]), items, i + 1)

SortByWeight_Ascending(items) == AscendingFrom(<<>>, items, 1)

\* The sort left out: the list stays in push order.
SortByWeight_Unsorted(items) == items

SortByWeight(items) == SortFrom(<<>>, items, 1)

\* evaluate(state, environments, npcs): the cached list while it is fresh,
\* else the pushed items sorted; appended is what the returned list was
\* built from.
evaluate(p, state, environments, npcs) ==
  IF p.priorityCache # Absent /\ p.sinceEvaluation < CACHE_LIFETIME
  THEN [self |-> p, ret |-> p.priorityCache[1].list,
        appended |-> p.priorityCache[1].appended,
        cached |-> TRUE]
  ELSE
    LET currentEnv == IF state.currentEnvironment \in DOMAIN environments
                      THEN Present(environments[state.currentEnvironment]) ELSE Absent
        priorities == Appended(state, currentEnv, npcs)
        sorted == SortByWeight(priorities)
    IN [self |-> [priorityCache |-> Present([list |-> sorted, appended |-> priorities]),
                  sinceEvaluation |-> 0],
        ret |-> sorted, appended |-> priorities, cached |-> FALSE]

\* getTopPriority(state, environments, npcs): element 0 of evaluate()'s list,
\* or null (Absent) when the list is empty.
getTopPriority(p, state, environments, npcs) ==
  LET out == evaluate(p, state, environments, npcs)
  IN [out EXCEPT !.ret = IF Len(out.ret) > 0 THEN Present(out.ret[1]) ELSE Absent]

\* Each object is exercised on its own: a step on one leaves the others.
\* ---------------------------------------------------------- serialization
\* Array.from of a Set or of a Map's keys: its elements in a sequence.
RECURSIVE ArrayFrom(_)
ArrayFrom(set) ==
  IF set = {} THEN <<>>
  ELSE LET x == CHOOSE e \in set : TRUE IN <<x>> \o ArrayFrom(set \ {x})

\* new Set(array), new Map(entries).keys()
SetFrom(array) == {array[i] : i \in DOMAIN array}

\* GameState.serialize(): the document JSON.stringify writes; flags is the
\* array of the Map's [key, value] entries (every value is true).
serialize(st) ==
  [currentEnvironment |-> st.currentEnvironment,
   player |-> st.player,
   sloan |-> st.sloan,
   objectives |-> st.objectives,
   phase |-> st.phase,
   flags |-> [i \in DOMAIN ArrayFrom(st.flags) |-> <<ArrayFrom(st.flags)[i], TRUE>>],
   npcs |-> ArrayFrom(DOMAIN st.npcs)]

\* deserialize without the line that restores the flags.
deserialize_KeepFlags(st, data) ==
  [st EXCEPT !.currentEnvironment = data.currentEnvironment,
             !.player = data.player,
             !.sloan = data.sloan,
             !.objectives = data.objectives,
             !.phase = data.phase]

\* GameState.deserialize(json): the fields assigned from the parsed document;
\* the NPCs are left as they are.
deserialize(st, data) ==
  [st EXCEPT !.currentEnvironment = data.currentEnvironment,
             !.player = data.player,
             !.sloan = data.sloan,
             !.objectives = data.objectives,
             !.phase = data.phase,
             !.flags = {data.flags[i][1] : i \in {j \in DOMAIN data.flags : data.flags[j][2]}}]

\* VitalsSystem.serialize(): conditions as an array, no timed effect.
serializeVitals(v) ==
  [health |-> v.health, maxHealth |-> v.maxHealth,
   stamina |-> v.stamina, maxStamina |-> v.maxStamina,
   stress |-> v.stress, detection |-> v.detection,
   conditions |-> ArrayFrom(v.conditions), effects |-> <<>>]

\* new VitalsSystem(config): config.x ?? default.
VitalsFromConfig(config) ==
  LET field(k, default) == IF k \in DOMAIN config THEN config[k] ELSE default
  IN [health |-> field("health", Pt(100)), maxHealth |-> field("maxHealth", Pt(100)),
      stamina |-> field("stamina", Pt(100)), maxStamina |-> field("maxStamina", Pt(100)),
      stress |-> field("stress", 0), detection |-> field("detection", 0),
      conditions |-> {}]

\* VitalsSystem.deserialize(data)
deserializeVitals(data) ==
  [VitalsFromConfig(data) EXCEPT !.conditions = SetFrom(data.conditions)]

\* ----------------------------------------------------------------- Player
\* new Player(): PlayerVitals at their defaults, no condition, not hidden.
NewPlayer ==
  [vitals |-> NewVitals(Pt(100), Pt(100)), conditions |-> {}, hidden |-> FALSE]

\* Player.setHidden(hidden)
setHidden(p, hidden) ==
  [p EXCEPT !.hidden = hidden,
            !.conditions = IF hidden THEN @ \cup {"hidden"} ELSE @ \ {"hidden"}]

\* Player.tick(): the vitals tick, refresh their conditions, and every
\* condition of the vitals is added to the player's own set.
PlayerTick(p) ==
  LET v == updateConditions(VitalsTick(p.vitals))
  IN [p EXCEPT !.vitals = v, !.conditions = @ \cup v.conditions]

\* --------------------------------------------------------- DisplayManager
\* The channels of the global display modifiers.
Channels == {"shake", "blur", "darken", "pulse"}

\* effectMap of handleConditionChange, in tenths; a channel a condition does
\* not name is no key of its effect.
EffectMap ==
  [c \in {"high-stress", "panicked", "injured", "critical", "hidden"} |->
     CASE c = "high-stress" -> [k \in {"shake", "pulse"} |-> IF k = "shake" THEN 3 ELSE 5]
       [] c = "panicked" ->
            [k \in {"shake", "blur", "pulse"} |->
               IF k = "shake" THEN 6 ELSE IF k = "blur" THEN 2 ELSE 8]
       [] c = "injured" -> [k \in {"darken", "pulse"} |-> IF k = "darken" THEN 1 ELSE 3]
       [] c = "critical" -> [k \in {"darken", "pulse"} |-> IF k = "darken" THEN 3 ELSE 9]
       [] c = "hidden" -> [k \in {"darken"} |-> 2]]

\* The value 1 of a modifier, in tenths.
Full == 10

NoModifiers == [k \in Channels |-> 0]

\* new DisplayManager(): activeEffects is a Map, kept as the sequence of its
\* keys in insertion order (the effect of a key is EffectMap[key]).
NewDisplayManager == [activeEffects |-> <<>>, modifiers |-> NoModifiers]

\* Map.set: a new key goes last, a key already there keeps its place.
MapSet(keys, key) ==
  IF \E i \in DOMAIN keys : keys[i] = key THEN keys ELSE Append(keys, key)

\* Map.delete
MapDelete(keys, key) == SelectSeq(keys, LAMBDA k : k # key)

\* One effect added to the modifiers: each of its channels rises by its
\* value, capped at 1.
Accumulate(modifiers, effect) ==
  [k \in Channels |->
     IF k \in DOMAIN effect THEN Min(Full, modifiers[k] + effect[k]) ELSE modifiers[k]]

RECURSIVE AccumulateFrom(_, _, _)
AccumulateFrom(modifiers, keys, i) ==
  IF i > Len(keys) THEN modifiers
  ELSE AccumulateFrom(Accumulate(modifiers, EffectMap[keys[i]]), keys, i + 1)

\* recalculateModifiers without the reset: the effects are added to the
\* modifiers of the previous notification.
recalculateModifiers_NoReset(d) ==
  [d EXCEPT !.modifiers = AccumulateFrom(d.modifiers, d.activeEffects, 1)]

\* recalculateModifiers(): reset, then accumulate over activeEffects.values().
recalculateModifiers(d) ==
  [d EXCEPT !.modifiers = AccumulateFrom(NoModifiers, d.activeEffects, 1)]

\* handleConditionChange(data, added)
handleConditionChange(d, conditionId, added) ==
  IF conditionId \in DOMAIN EffectMap
  THEN recalculateModifiers(
         [d EXCEPT !.activeEffects = IF added THEN MapSet(@, conditionId)
                                     ELSE MapDelete(@, conditionId)])
  ELSE d

\* ------------------------------------------------------------ Card
\* Default of the duration parameter of Card.transitionTo (ms).
DefaultDuration == 300

\* `new Card(config)`: state is config.state or STANDARD, no transition running.
\* transitionProgress is kept in milliseconds: the source's fraction is
\* transitionProgress / transitionDuration.
NewCard(type, state, active) ==
  [type |-> type, state |-> state, data |-> [active |-> active, actionType |-> Null],
   transitioning |-> FALSE, transitionTarget |-> Null,
   transitionProgress |-> 0, transitionDuration |-> 0]

\* Card.transitionTo(newState, duration = 300)
CardTransitionTo(c, newState, duration) ==
  IF c.state = newState THEN c
  ELSE [c EXCEPT !.transitioning = TRUE, !.transitionTarget = newState,
                 !.transitionProgress = 0, !.transitionDuration = duration]

\* Card.updateTransition(deltaTime)
updateTransition(c, deltaTime) ==
  IF ~c.transitioning THEN c
  ELSE LET progress == c.transitionProgress + deltaTime
       IN IF progress >= c.transitionDuration
          THEN [c EXCEPT !.transitionProgress = progress, !.state = c.transitionTarget,
                         !.transitioning = FALSE, !.transitionTarget = Null]
          ELSE [c EXCEPT !.transitionProgress = progress]

\* The first entry of a priority list, or Absent (priorities[0] of an empty array).
TopPriority(priorities) ==
  IF Len(priorities) > 0 THEN Present(priorities[1]) ELSE Absent

determineInventoryState(c, topPriority) ==
  IF topPriority # Absent /\ topPriority[1].type = "npc-interaction"
  THEN "minimized" ELSE "standard"

determineDialogueState(c, topPriority) ==
  IF topPriority # Absent /\ topPriority[1].type = "npc-interaction" /\ c.data.active
  THEN "expanded" ELSE "collapsed"

determineActionPaletteState(c, topPriority) ==
  IF topPriority = Absent THEN "standard"
  ELSE IF topPriority[1].type = "npc-interaction" /\ c.data.actionType = "environment"
       THEN "collapsed"
  ELSE IF topPriority[1].type = "npc-interaction"
          /\ c.data.actionType \in {"social", "combat"}
       THEN "expanded"
  ELSE IF topPriority[1].type = "environment-actions"
       THEN IF c.data.actionType = "environment" THEN "expanded" ELSE "standard"
  ELSE "standard"

\* DisplayManager.determineCardState for the card types the model registers;
\* every other type takes the default branch.
determineCardState(c, topPriority) ==
  CASE c.type = "action-palette" -> determineActionPaletteState(c, topPriority)
    [] c.type = "inventory" -> determineInventoryState(c, topPriority)
    [] c.type = "dialogue"  -> determineDialogueState(c, topPriority)
    [] OTHER                -> "standard"

\* DisplayManager.recalculateCardStates, for the one registered card.
recalculateCardStates(d) ==
  LET newState == determineCardState(d.card, TopPriority(d.priorities))
  IN IF newState # d.card.state
     THEN [d EXCEPT !.card = CardTransitionTo(@, newState, DefaultDuration)]
     ELSE d

\* DisplayManager.handlePriorityUpdate(priorities)
handlePriorityUpdate(d, priorities) ==
  recalculateCardStates([d EXCEPT !.priorities = priorities])

\* DisplayManager.update(deltaTime)
DisplayUpdate(d, deltaTime) ==
  [d EXCEPT !.card = updateTransition(@, deltaTime)]

\* ------------------------------------------------------------ Mack
\* MackConfig: the sobriety thresholds and the cooldown between calls (ticks).
MackThresholds == [sharp |-> 71, tipsy |-> 41, drunk |-> 21, passedOut |-> 0]
CallCooldown == 100

\* How many calls and LLM requests in flight the model tells apart.
MaxRequests == 2

\* new Mack(eventBus, config); inFlight counts the handleContact calls that
\* are suspended at `await this.getLLMResponse(data)`.
NewMack(llmEnabled) ==
  [sobriety |-> 50, state |-> "unknown", cooldown |-> 0, callCount |-> 0,
   llmEnabled |-> llmEnabled, inFlight |-> 0, responses |-> 0]

determineState(sobriety) ==
  IF sobriety >= MackThresholds.sharp THEN "sharp"
  ELSE IF sobriety >= MackThresholds.tipsy THEN "tipsy"
  ELSE IF sobriety >= MackThresholds.drunk THEN "drunk"
  ELSE "passedOut"

\* respond(message, originalData): the response is recorded and emitted.
respond(k) == [k EXCEPT !.responses = Min(MaxRequests, @ + 1)]

\* handleContact(data) up to its return or its await; rolled is the value
\* rollSobriety() draws. ret is "busy", "answered" or "awaiting".
handleContact(k, rolled) ==
  IF k.cooldown > 0 THEN Outcome(k, "busy", <<[type |-> "mack:busy"]>>)
  ELSE
    LET called == [k EXCEPT !.sobriety = rolled,
                            !.state = determineState(rolled),
                            !.callCount = Min(MaxRequests, @ + 1)]
        connecting == <<[type |-> "mack:connecting"]>>
    IN IF called.state = "passedOut"
       THEN Outcome(respond(called), "answered", connecting)
       ELSE IF called.llmEnabled
       THEN Outcome([called EXCEPT !.inFlight = @ + 1], "awaiting", connecting)
       ELSE Outcome([respond(called) EXCEPT !.cooldown = CallCooldown],
                    "answered", connecting)

\* The rest of handleContact once getLLMResponse has settled (a reply, or the
\* fallback after a failed request): respond, then set the cooldown.
handleContactResumed(k) ==
  [respond(k) EXCEPT !.inFlight = @ - 1, !.cooldown = CallCooldown]

\* Mack.tick()
MackTick(k) == IF k.cooldown > 0 THEN [k EXCEPT !.cooldown = @ - 1] ELSE k

\* ------------------------------------------------------------------ frames
OnlyMode ==
  UNCHANGED <<vit, vitOp, npc, npcOp, game, gameOp, pm, pmOp, player, playerOp, dm,
            dmOp, gs, gsOp, card, cardOp, dlg, dlgOp, mack, mackOp>>
OnlyVitals ==
  UNCHANGED <<mm, mmOp, npc, npcOp, game, gameOp, pm, pmOp, player, playerOp, dm, dmOp,
            gs, gsOp, card, cardOp, dlg, dlgOp, mack, mackOp>>
OnlyNpc ==
  UNCHANGED <<mm, mmOp, vit, vitOp, game, gameOp, pm, pmOp, player, playerOp, dm, dmOp,
            gs, gsOp, card, cardOp, dlg, dlgOp, mack, mackOp>>
OnlyGame ==
  UNCHANGED <<mm, mmOp, vit, vitOp, npc, npcOp, pm, pmOp, player, playerOp, dm, dmOp,
            gs, gsOp, card, cardOp, dlg, dlgOp, mack, mackOp>>
OnlyPriority ==
  UNCHANGED <<mm, mmOp, vit, vitOp, npc, npcOp, game, gameOp, player, playerOp, dm,
            dmOp, gs, gsOp, card, cardOp, dlg, dlgOp, mack, mackOp>>
OnlyPlayer ==
  UNCHANGED <<mm, mmOp, vit, vitOp, npc, npcOp, game, gameOp, pm, pmOp, dm, dmOp, gs,
            gsOp, card, cardOp, dlg, dlgOp, mack, mackOp>>
OnlyDisplay ==
  UNCHANGED <<mm, mmOp, vit, vitOp, npc, npcOp, game, gameOp, pm, pmOp, player,
            playerOp, gs, gsOp, card, cardOp, dlg, dlgOp, mack, mackOp>>
OnlySave ==
  UNCHANGED <<mm, mmOp, vit, vitOp, npc, npcOp, game, gameOp, pm, pmOp, player,
            playerOp, dm, dmOp, card, cardOp, dlg, dlgOp, mack, mackOp>>
OnlyCard ==
  UNCHANGED <<mm, mmOp, vit, vitOp, npc, npcOp, game, gameOp, pm, pmOp, player,
            playerOp, dm, dmOp, gs, gsOp, dlg, dlgOp, mack, mackOp>>
OnlyDlg ==
  UNCHANGED <<mm, mmOp, vit, vitOp, npc, npcOp, game, gameOp, pm, pmOp, player,
            playerOp, dm, dmOp, gs, gsOp, card, cardOp, mack, mackOp>>

\* ------------------------------------------- the ModeManager on its own
\* Targets a caller may name: three modes and one name that is no mode.
ModeTargets == {"exploration", "stealth", "combat", "hacking"}

\* options a caller may pass ({} is pushToStack false, lockDuration absent).
ModeOptions == [pushToStack : BOOLEAN, lockDuration : {0, 1000}]

MmIdle == [op |-> "new", target |-> Null, push |-> FALSE, lockDuration |-> 0, ret |-> Null,
           events |-> <<>>, changed |-> FALSE, lockPending |-> FALSE, won |-> Null]

\* The record of one call on mm: what was asked, what came back, whether the
\* call changed the manager, whether a lock timer was pending when it was
\* made, and the target of the latest successful transition.
MmCall(op, target, options, out) ==
  [op |-> op, target |-> target, push |-> options.pushToStack,
   lockDuration |-> options.lockDuration, ret |-> out.ret,
   events |-> out.events, changed |-> out.self # mm,
   lockPending |-> mm.lockTimers # {},
   won |-> IF out.events # <<>> THEN out.self.currentMode ELSE mmOp.won]

MM_TransitionTo(target, options) ==
  /\ options.pushToStack => Len(mm.modeStack) < MaxStack
  /\ LET out == transitionTo(mm, target, options)
     IN /\ mm' = out.self
        /\ mmOp' = MmCall("transitionTo", target, options, out)
  /\ OnlyMode

MM_ReturnToPrevious ==
  LET out == returnToPrevious(mm)
  IN /\ mm' = out.self
     /\ mmOp' = MmCall("returnToPrevious", mm.previousMode, NoOptions, out)
     /\ OnlyMode

MM_PopMode ==
  LET out == popMode(mm)
  IN /\ mm' = out.self
     /\ mmOp' = MmCall("popMode", Null, NoOptions, out)
     /\ OnlyMode

MM_Reset ==
  LET out == reset(mm)
  IN /\ mm' = out.self
     /\ mmOp' = MmCall("reset", "exploration", NoOptions, out)
     /\ OnlyMode

MM_LockTimer ==
  /\ 0 \in mm.lockTimers
  /\ mm' = LockTimerFired(mm)
  /\ mmOp' = [MmIdle EXCEPT !.op = "timer", !.won = mmOp.won]
  /\ OnlyMode

MM_TimePasses ==
  /\ mm.lockTimers # {}
  /\ 0 \notin mm.lockTimers
  /\ mm' = [mm EXCEPT !.lockTimers = TimersAfter(@, Slice(@))]
  /\ mmOp' = [MmIdle EXCEPT !.op = "time", !.won = mmOp.won]
  /\ OnlyMode

\* ---------------------------------------------- the VitalsSystem on its own
\* vit.sys is a VitalsSystem, vit.state a GameState whose player.vitals
\* updateVitals changes.
VitalNames == {"health", "stamina", "stress", "detection"}

\* Deltas callers pass, in points: far out of range, the costs the game and
\* the tick use, and nothing.
VitalDeltas == {-1000, -20, 0, 15, 1000}

VitIdle == [sys |-> NewVitals(Pt(100), Pt(100)), state |-> NewGameState]

\* The last call: the method, the vital and the delta (in points), the value
\* returned or stored, whether one or more calls were made, and the delta of
\* the call before. A behaviour exercises one method on one vital: a change
\* of one vital reads and writes no other.
VitOpIdle(op, vital) ==
  [op |-> op, vital |-> vital, calls |-> 0, amount |-> 0, ret |-> 0, prevAmount |-> 0]

VitCall(op, vital, amount, ret) ==
  [op |-> op, vital |-> vital, calls |-> Min(2, vitOp.calls + 1), amount |-> amount,
   ret |-> ret, prevAmount |-> vitOp.amount]

Vit_ModifyVital(vital, delta) ==
  LET out == modifyVital(vit.sys, vital, Pt(delta))
  IN /\ vitOp.op = "modifyVital" /\ vital = vitOp.vital
     /\ vit' = [vit EXCEPT !.sys = out.self]
     /\ vitOp' = VitCall("modifyVital", vital, delta, out.ret)
     /\ OnlyVitals

Vit_UpdateVitals(vital, delta) ==
  LET st == updateVitals(vit.state, [k \in {vital} |-> Pt(delta)])
  IN /\ vitOp.op = "updateVitals" /\ vital = vitOp.vital
     /\ vit' = [vit EXCEPT !.state = st]
     /\ vitOp' = VitCall("updateVitals", vital, delta, st.player.vitals[vital])
     /\ OnlyVitals

\* One game tick of a VitalsSystem on its own.
Vit_Tick ==
  /\ vitOp.op = "tick"
  /\ vit' = [vit EXCEPT !.sys = VitalsTick(@)]
  /\ vitOp' = VitCall("tick", vitOp.vital, 0, 0)
  /\ OnlyVitals

\* ------------------------------------------------------ the NPC on its own
NpcIdle == NewNPC("npc", "guard", "office-floor", Pt(80), "unaware", Null)

NpcOpIdle == [op |-> "new", before |-> "unaware"]

NPC_DetectPlayer(distance, playerHidden, inFront, noise) ==
  /\ npc' = detectPlayer(npc, distance, playerHidden, inFront, noise).self
  /\ npcOp' = [op |-> "detectPlayer", before |-> npc.awareness]
  /\ OnlyNpc

NPC_Tick ==
  /\ npc' = NPCTick(npc)
  /\ npcOp' = [op |-> "tick", before |-> npc.awareness]
  /\ OnlyNpc

NPC_TakeDamage(amount) ==
  /\ npc' = takeDamage(npc, Pt(amount))
  /\ npcOp' = [op |-> "takeDamage", before |-> npc.awareness]
  /\ OnlyNpc

NPC_Subdue ==
  /\ npc' = subdue(npc)
  /\ npcOp' = [op |-> "subdue", before |-> npc.awareness]
  /\ OnlyNpc

\* -------------------------------------------- the PriorityManager on its own
\* World snapshots handed to evaluate(): the player's vitals and conditions,
\* one NPC, the room (known to the environments map or not) with its
\* elements, and the reach objectives.
PrioVitals ==
  {[health |-> Pt(100), stamina |-> Pt(100), stress |-> 0, detection |-> 0],
   [health |-> Pt(10), stamina |-> Pt(100), stress |-> 0, detection |-> 0],
   [health |-> Pt(100), stamina |-> Pt(100), stress |-> 0, detection |-> Pt(80)]}

PrioConditions == {{}, {"hidden"}}

PrioElements ==
  {<<>>,
   <<[interactive |-> TRUE, isObjective |-> FALSE]>>,
   <<[interactive |-> FALSE, isObjective |-> TRUE]>>,
   <<[interactive |-> TRUE, isObjective |-> TRUE],
     [interactive |-> FALSE, isObjective |-> FALSE]>>}

PrioObjectives ==
  {<<>>, <<[type |-> "reach", location |-> "office-floor", completed |-> FALSE]>>}

PrioState(room, v, c, o) ==
  [currentEnvironment |-> room, player |-> [vitals |-> v, conditions |-> c],
   objectives |-> o]

\* The player in the office floor in every condition, or well and in a room
\* the environments map does not hold.
PrioStates ==
  {PrioState("office-floor", v, c, o) :
     v \in PrioVitals, c \in PrioConditions, o \in PrioObjectives}
  \cup {PrioState("nowhere", [health |-> Pt(100), stamina |-> Pt(100), stress |-> 0,
                              detection |-> 0], {}, <<>>)}

PrioEnvironments ==
  {[r \in {"office-floor"} |->
      [id |-> r, exits |-> ENVIRONMENTS[r].exits, elements |-> els]] : els \in PrioElements}

PrioNpc(location, awareness, engaged, unconscious) ==
  <<[NewNPC("guard-1", "guard", location, Pt(80), awareness, Null) EXCEPT
       !.engaged = engaged,
       !.vitals.conditions = IF unconscious THEN {"unconscious"} ELSE {}]>>

\* The NPC in the room in every state it can be in, or in another room.
PrioNpcs ==
  {PrioNpc("office-floor", awareness, engaged, unconscious) :
     awareness \in {"unaware", "suspicious", "hostile"},
     engaged \in BOOLEAN, unconscious \in BOOLEAN}
  \cup {PrioNpc("lobby-main", "unaware", FALSE, FALSE)}

\* Whether some NPC of the list is engaged and in the state's current room.
EngagedHere(state, npcs) ==
  \E i \in DOMAIN npcs : npcs[i].location = state.currentEnvironment /\ npcs[i].engaged

PmIdle ==
  [op |-> "new", appended |-> <<>>, returned |-> <<>>, cached |-> FALSE, top |-> Absent,
   engagedHere |-> FALSE]

PM_Evaluate(state, environments, npcs) ==
  LET out == evaluate(pm, state, environments, npcs)
  IN /\ pm' = out.self
     /\ pmOp' = [op |-> "evaluate", appended |-> out.appended, returned |-> out.ret,
                 cached |-> out.cached, top |-> Absent,
                 engagedHere |-> EngagedHere(state, npcs)]
     /\ OnlyPriority

\* getTopPriority(): returned is the list its evaluate() call gave.
PM_GetTopPriority(state, environments, npcs) ==
  LET out == getTopPriority(pm, state, environments, npcs)
  IN /\ pm' = out.self
     /\ pmOp' = [op |-> "getTopPriority", appended |-> out.appended,
                 returned |-> evaluate(pm, state, environments, npcs).ret,
                 cached |-> out.cached, top |-> out.ret,
                 engagedHere |-> EngagedHere(state, npcs)]
     /\ OnlyPriority

\* invalidateCache()
PM_InvalidateCache ==
  /\ pm.priorityCache # Absent
  /\ pm' = [priorityCache |-> Absent, sinceEvaluation |-> CACHE_LIFETIME]
  /\ pmOp' = PmIdle
  /\ OnlyPriority

PM_TimePasses ==
  /\ pm.sinceEvaluation < CACHE_LIFETIME
  /\ pm' = [pm EXCEPT !.sinceEvaluation = Min(CACHE_LIFETIME, @ + TimeStep)]
  /\ pmOp' = [pmOp EXCEPT !.op = "time"]
  /\ OnlyPriority

\* ---------------------------------------------- save and load on their own
\* gs.state is a GameState and gs.sys a VitalsSystem; json and vitalsJson are
\* the documents last serialized, atSave and sysAtSave what the two objects
\* were at that moment.
SaveVitals == {"health", "stress"}
SaveDeltas == {-80, 75}
SaveFlags == {"logs_acquired", "alarm_triggered"}

\* Calls made on the two objects in one run.
MaxSaveOps == 4

GsIdle ==
  [state |-> NewGameState, sys |-> NewVitals(Pt(100), Pt(100)),
   json |-> Absent, atSave |-> Absent, vitalsJson |-> Absent, sysAtSave |-> Absent]

GsOpIdle == [op |-> "new", calls |-> 0, changed |-> FALSE]

GsCall(op, changed) == [op |-> op, calls |-> gsOp.calls + 1, changed |-> changed]

GS_UpdateVitals(vital, delta) ==
  /\ gsOp.calls < MaxSaveOps
  /\ gs' = [gs EXCEPT !.state = updateVitals(@, [k \in {vital} |-> Pt(delta)])]
  /\ gsOp' = GsCall("updateVitals", FALSE)
  /\ OnlySave

GS_SetFlag(key) ==
  /\ gsOp.calls < MaxSaveOps
  /\ gs' = [gs EXCEPT !.state = setFlag(@, key)]
  /\ gsOp' = GsCall("setFlag", FALSE)
  /\ OnlySave

\* An objective is marked completed, as takeItem does for the logs.
GS_CompleteObjective(o) ==
  /\ gsOp.calls < MaxSaveOps
  /\ gs' = [gs EXCEPT !.state.objectives[o] = TRUE]
  /\ gsOp' = GsCall("objective", FALSE)
  /\ OnlySave

GS_ModifyVital(vital, delta) ==
  /\ gsOp.calls < MaxSaveOps
  /\ gs' = [gs EXCEPT !.sys = modifyVital(@, vital, Pt(delta)).self]
  /\ gsOp' = GsCall("modifyVital", FALSE)
  /\ OnlySave

GS_Serialize ==
  /\ gsOp.calls < MaxSaveOps
  /\ gs' = [gs EXCEPT !.json = Present(serialize(gs.state)), !.atSave = Present(gs.state)]
  /\ gsOp' = GsCall("serialize", FALSE)
  /\ OnlySave

GS_Deserialize ==
  /\ gsOp.calls < MaxSaveOps
  /\ gs.json # Absent
  /\ gs' = [gs EXCEPT !.state = deserialize(@, gs.json[1])]
  /\ gsOp' = GsCall("deserialize", gs.state # gs.atSave[1])
  /\ OnlySave

GS_SerializeVitals ==
  /\ gsOp.calls < MaxSaveOps
  /\ gs' = [gs EXCEPT !.vitalsJson = Present(serializeVitals(gs.sys)),
                      !.sysAtSave = Present(gs.sys)]
  /\ gsOp' = GsCall("vitals.serialize", FALSE)
  /\ OnlySave

GS_DeserializeVitals ==
  /\ gsOp.calls < MaxSaveOps
  /\ gs.vitalsJson # Absent
  /\ gs' = [gs EXCEPT !.sys = deserializeVitals(gs.vitalsJson[1])]
  /\ gsOp' = GsCall("vitals.deserialize", gs.sys # gs.sysAtSave[1])
  /\ OnlySave

\* ------------------------------------------------- the Player on its own
\* Deltas (in points) the callers of modifyVital pass.
PlayerDeltas == {-45, 25, 75}

\* Calls made on the player in one run.
MaxPlayerOps == 4

PlayerOpIdle == [op |-> "new", calls |-> 0]

PlayerCall(op) == [op |-> op, calls |-> playerOp.calls + 1]

Player_ModifyVital(vital, delta) ==
  /\ playerOp.calls < MaxPlayerOps
  /\ player' = [player EXCEPT !.vitals = modifyVital(@, vital, Pt(delta)).self]
  /\ playerOp' = PlayerCall("modifyVital")
  /\ OnlyPlayer

Player_Tick ==
  /\ playerOp.calls < MaxPlayerOps
  /\ player' = PlayerTick(player)
  /\ playerOp' = PlayerCall("tick")
  /\ OnlyPlayer

Player_SetHidden(hidden) ==
  /\ playerOp.calls < MaxPlayerOps
  /\ player' = setHidden(player, hidden)
  /\ playerOp' = PlayerCall("setHidden")
  /\ OnlyPlayer

\* ----------------------------------------- the DisplayManager on its own
\* Condition ids the notifications carry: those of effectMap and one more.
ConditionIds == DOMAIN EffectMap \cup {"exhausted"}

DmIdle == [op |-> "new", conditionId |-> Null]

DM_ConditionAdded(conditionId) ==
  /\ dm' = handleConditionChange(dm, conditionId, TRUE)
  /\ dmOp' = [op |-> "condition:added", conditionId |-> conditionId]
  /\ OnlyDisplay

DM_ConditionRemoved(conditionId) ==
  /\ dm' = handleConditionChange(dm, conditionId, FALSE)
  /\ dmOp' = [op |-> "condition:removed", conditionId |-> conditionId]
  /\ OnlyDisplay

\* ------------------------------------------------------------ the game
\* The verbs the runs of the game draw: a room change, an item, the flee
\* penalty, and a verb that writes no game state.
GameVerbs == {"move", "take", "flee", "talk"}

\* Targets the player interface may send with a verb: a room, an NPC or an
\* item, one of each kind being absent from the mission.
RoomTargets == DOMAIN ENVIRONMENTS \cup {"vault"}
NpcTargets == NpcIds \cup {"nobody"}
ItemTargets == {"access-logs"}

TargetsOf(verb) ==
  CASE verb \in {"move", "sneak"} -> RoomTargets
    [] verb \in {"subdue", "attack", "talk"} -> NpcTargets
    [] verb = "take" -> ItemTargets
    [] OTHER -> {Null}

\* Values of Math.random() * 100 the model draws.
Rolls == {0, 99}

\* Only subdue draws a random number.
RollsOf(verb) == IF verb = "subdue" THEN Rolls ELSE {0}

\* The last step of the game: an executeAction that changed the game (with
\* whether the active mode allowed its verb), a frame (with its detection
\* check and whether the mission was complete when it began), or another step.
GameOpIdle ==
  [op |-> "other", verb |-> Null, target |-> Null, allowed |-> TRUE, changed |-> FALSE, check |-> NoCheck,
   wasComplete |-> FALSE]

\* The timers of the page: the grace timers and the mode lock timers.
PageTimers(g) == g.graceTimers \cup g.modeManager.lockTimers

StackBounded(g) == Len(g.modeManager.modeStack) <= MaxStack

\* An input is taken while the run has inputs left; one that changes the
\* game is counted.
Input(g) == IF g = game THEN g ELSE [g EXCEPT !.inputs = @ + 1]
MoreInputs == game.inputs < MaxInputs

\* The clock of the page is read every TimeStep ms: inputs arrive and frames
\* run at those instants, timers fire when they are due, also in between.
AtInstant == game.phase = 0

Game_ExecuteAction(verb, target, roll) ==
  LET g == executeAction(game, verb, target, roll)
  IN /\ MoreInputs /\ AtInstant
     /\ StackBounded(g)
     /\ game' = Input(g)
     /\ gameOp' = IF g = game THEN GameOpIdle
                   ELSE [GameOpIdle EXCEPT
                           !.op = "executeAction",
                           !.verb = verb,
                           !.target = target,
                           !.allowed = isActionAllowed(game.modeManager, verb),
                           !.changed = TRUE]
     /\ OnlyGame

Game_DialogueFailed(npcId) ==
  LET g == handleDialogueFailed(game, npcId)
  IN /\ MoreInputs /\ AtInstant
     /\ StackBounded(g)
     /\ game' = Input(g)
     /\ gameOp' = GameOpIdle
     /\ OnlyGame

Game_DialogueEnded ==
  /\ MoreInputs /\ AtInstant
  /\ game' = Input(WithMode(game, returnToPrevious(game.modeManager)))
  /\ gameOp' = GameOpIdle
  /\ OnlyGame

\* An NPC action outside the game object sets the alarm flag.
Game_AlarmTriggered ==
  /\ MoreInputs /\ AtInstant
  /\ ~hasFlag(game.state, "alarm_triggered")
  /\ game' = Input([game EXCEPT !.state = setFlag(@, "alarm_triggered")])
  /\ gameOp' = GameOpIdle
  /\ OnlyGame

Game_GraceTimer ==
  /\ 0 \in game.graceTimers
  /\ game' = GraceTimerFired(game)
  /\ gameOp' = GameOpIdle
  /\ OnlyGame

Game_LockTimer ==
  /\ 0 \in game.modeManager.lockTimers
  /\ game' = [game EXCEPT !.modeManager = LockTimerFired(@)]
  /\ gameOp' = GameOpIdle
  /\ OnlyGame

Game_TimePasses ==
  /\ 0 \notin PageTimers(game)
  /\ LET d == Min(TimeStep - game.phase, Slice(PageTimers(game)))
     IN game' = [game EXCEPT
                   !.phase = (@ + d) % TimeStep,
                   !.graceTimers = TimersAfter(@, d),
                   !.modeManager.lockTimers = TimersAfter(@, d),
                   !.sinceEntry = Min(DETECTION_GRACE_PERIOD, @ + d),
                   !.sinceCheck = Min(DETECTION_CHECK_INTERVAL + 1, @ + d)]
  /\ gameOp' = GameOpIdle
  /\ OnlyGame

Game_Frame(rolls) ==
  LET g == FrameCallback(game, rolls)
  IN /\ game.animationId # Null /\ AtInstant
     /\ StackBounded(g)
     /\ game' = [g EXCEPT !.lastCheck = NoCheck]
     /\ gameOp' = [GameOpIdle EXCEPT !.op = "frame", !.check = g.lastCheck,
                                     !.wasComplete = hasFlag(game.state, "mission_complete")]
     /\ OnlyGame

\* ----------------------------------------------- display loop actions
\* Card types registered by the model: two with their own rule, one default.
CardTypes == {"action-palette", "inventory", "dialogue", "popup"}
\* data.actionType of a registered card: the three the resolver tells apart,
\* one it does not, and none.
ActionTypes == {"environment", "social", "combat", "movement", Null}
CardConfigStates == {"expanded", "standard", "minimized", "collapsed"}
\* Frame times the loop delivers, all below the transition duration.
FrameTimes == {16, 120, 299}
\* Priority lists delivered with priorities:updated, by their first entry.
PriorityLists ==
  {<<[type |-> t]>> : t \in {"npc-interaction", "environment-actions", "inventory"}}

CardIdle == [card |-> NewCard("popup", "standard", FALSE), priorities |-> <<>>]
CardOpIdle == [op |-> "none", deltaTime |-> 0, resolved |-> "standard"]

\* One frame of GlassShadow.update as the display sees it:
\* display.update(deltaTime), then priorities:updated with the new list.
Card_Frame(deltaTime, priorities) ==
  LET updated  == DisplayUpdate(card, deltaTime)
      notified == handlePriorityUpdate(updated, priorities)
  IN /\ card' = notified
     /\ cardOp' = [op |-> "frame", deltaTime |-> deltaTime,
                   resolved |-> determineCardState(updated.card,
                                                   TopPriority(priorities))]
     /\ OnlyCard

\* --------------------------------------------------- dialogue actions
DlgOpIdle == [op |-> "none", before |-> Null, after |-> Null, locked |-> FALSE]

\* Everything but the game and the dialogue it has open.
OnlyGameAndDlg ==
  UNCHANGED <<mm, mmOp, vit, vitOp, npc, npcOp, pm, pmOp, player, playerOp, dm, dmOp,
            gs, gsOp, card, cardOp, mack, mackOp>>
OnlyMack ==
  UNCHANGED <<mm, mmOp, vit, vitOp, npc, npcOp, game, gameOp, pm, pmOp, player,
            playerOp, dm, dmOp, gs, gsOp, card, cardOp, dlg, dlgOp>>

\* handleNPCEngagement took its dialogue branch for some NPC between g0 and
\* g1: the NPC's engagement was handled and it is not hostile.
EngagedInDialogue(g0, g1) ==
  \E id \in NpcIds :
     /\ ~g0.state.npcs[id].handled /\ g1.state.npcs[id].handled
     /\ g1.state.npcs[id].awareness # "hostile"
     /\ (g1.state.npcs[id].dialogueId # Null \/ g1.state.npcs[id].type = "guard")

\* A frame of the loop; its detection check may engage an NPC, which opens
\* a dialogue (transitionTo('dialogue') and startDialogue).
Dlg_Frame(rolls) ==
  LET g == FrameCallback(game, rolls)
  IN /\ game.animationId # Null /\ AtInstant
     /\ StackBounded(g)
     /\ game' = [g EXCEPT !.lastCheck = NoCheck]
     /\ gameOp' = [GameOpIdle EXCEPT !.op = "frame", !.check = g.lastCheck,
                                     !.wasComplete = hasFlag(game.state, "mission_complete")]
     /\ dlg' = IF EngagedInDialogue(game, g)
               THEN Present(game.modeManager.currentMode) ELSE dlg
     /\ dlgOp' = DlgOpIdle
     /\ OnlyGameAndDlg

\* executeAction({verb: 'talk', target}): startDialogue opens the dialogue
\* of a known NPC in whatever mode is active.
Dlg_Talk(target) ==
  /\ MoreInputs /\ AtInstant
  /\ game' = Input(executeAction(game, "talk", target, 0))
  /\ gameOp' = GameOpIdle
  /\ dlg' = IF target \in NpcIds THEN Present(game.modeManager.currentMode) ELSE dlg
  /\ dlgOp' = DlgOpIdle
  /\ OnlyGameAndDlg

\* dialogue:failed while a dialogue is open.
Dlg_Failed(npcId) ==
  LET g == handleDialogueFailed(game, npcId)
  IN /\ dlg # Absent
     /\ MoreInputs /\ AtInstant
     /\ StackBounded(g)
     /\ game' = Input(g)
     /\ gameOp' = GameOpIdle
     /\ UNCHANGED dlg
     /\ dlgOp' = DlgOpIdle
     /\ OnlyGameAndDlg

\* dialogue:ended for the open dialogue: modeManager.returnToPrevious().
Dlg_Ended ==
  LET g == WithMode(game, returnToPrevious(game.modeManager))
  IN /\ dlg # Absent
     /\ MoreInputs /\ AtInstant
     /\ game' = Input(g)
     /\ gameOp' = GameOpIdle
     /\ dlg' = Absent
     /\ dlgOp' = [op |-> "ended", before |-> dlg[1],
                  after |-> g.modeManager.currentMode,
                  locked |-> game.modeManager.transitionLocked]
     /\ OnlyGameAndDlg

\* ------------------------------------------------------- Mack actions
\* Values rollSobriety() may draw, one for each advisor state.
SobrietyRolls == {10, 30, 55, 85}

MackOpIdle == [op |-> "new", ret |-> Null, inFlightBefore |-> 0]

\* mack:contact
Mack_Contact(rolled) ==
  LET out == handleContact(mack, rolled)
  IN /\ out.self.inFlight <= MaxRequests
     /\ mack' = out.self
     /\ mackOp' = [op |-> "handleContact", ret |-> out.ret,
                   inFlightBefore |-> mack.inFlight]
     /\ OnlyMack

\* The fetch of one suspended handleContact settles.
Mack_Resume ==
  /\ mack.inFlight > 0
  /\ mack' = handleContactResumed(mack)
  /\ mackOp' = [op |-> "resume", ret |-> "answered", inFlightBefore |-> mack.inFlight]
  /\ OnlyMack

\* game:tick
Mack_Tick ==
  /\ mack' = MackTick(mack)
  /\ mackOp' = [op |-> "tick", ret |-> Null, inFlightBefore |-> mack.inFlight]
  /\ OnlyMack

\* ------------------------------------------------------- specifications
InitAll ==
  /\ mm = NewModeManager /\ mmOp = MmIdle
  /\ vit = VitIdle /\ vitOp = VitOpIdle("modifyVital", "health")
  /\ npc = NpcIdle /\ npcOp = NpcOpIdle
  /\ game = NewGame /\ gameOp = GameOpIdle
  /\ pm = NewPriorityManager /\ pmOp = PmIdle
  /\ player = NewPlayer /\ playerOp = PlayerOpIdle
  /\ dm = NewDisplayManager /\ dmOp = DmIdle
  /\ gs = GsIdle /\ gsOp = GsOpIdle
  /\ card = CardIdle /\ cardOp = CardOpIdle
  /\ dlg = Absent /\ dlgOp = DlgOpIdle
  /\ mack = NewMack(FALSE) /\ mackOp = MackOpIdle

NextMode ==
  \/ \E target \in ModeTargets, options \in ModeOptions : MM_TransitionTo(target, options)
  \/ MM_ReturnToPrevious
  \/ MM_PopMode
  \/ MM_Reset
  \/ MM_LockTimer
  \/ MM_TimePasses

SpecMode == InitAll /\ [][NextMode]_vars

\* A VitalsSystem built from a config: health within [0, maxHealth].
InitVitals ==
  /\ mm = NewModeManager /\ mmOp = MmIdle
  /\ \E maxHealth \in {Pt(60), Pt(100)}, health \in {0, Pt(25), Pt(60)} :
       vit = [VitIdle EXCEPT !.sys = NewVitals(health, maxHealth)]
  /\ \E op \in {"modifyVital", "updateVitals"}, vital \in VitalNames :
       vitOp = VitOpIdle(op, vital)
  /\ npc = NpcIdle /\ npcOp = NpcOpIdle
  /\ game = NewGame /\ gameOp = GameOpIdle
  /\ pm = NewPriorityManager /\ pmOp = PmIdle
  /\ player = NewPlayer /\ playerOp = PlayerOpIdle
  /\ dm = NewDisplayManager /\ dmOp = DmIdle
  /\ gs = GsIdle /\ gsOp = GsOpIdle
  /\ card = CardIdle /\ cardOp = CardOpIdle
  /\ dlg = Absent /\ dlgOp = DlgOpIdle
  /\ mack = NewMack(FALSE) /\ mackOp = MackOpIdle

NextVitals ==
  \/ \E vital \in VitalNames, delta \in VitalDeltas : Vit_ModifyVital(vital, delta)
  \/ \E vital \in VitalNames, delta \in VitalDeltas : Vit_UpdateVitals(vital, delta)

SpecVitals == InitVitals /\ [][NextVitals]_vars

\* A VitalsSystem built from a config that gives every vital: the condition
\* set starts empty whatever the vitals are, and only ticks follow.
InitTick ==
  /\ mm = NewModeManager /\ mmOp = MmIdle
  /\ \E health \in {Pt(9), Pt(29), Pt(100)}, stamina \in {Pt(19), Pt(100)},
        stress \in {0, Pt(1), Pt(75)}, detection \in {0, Pt(59), Pt(60), Pt(80)} :
       vit = [VitIdle EXCEPT !.sys = [NewVitals(health, Pt(100)) EXCEPT
                                        !.stamina = stamina, !.stress = stress,
                                        !.detection = detection]]
  /\ vitOp = VitOpIdle("tick", "health")
  /\ npc = NpcIdle /\ npcOp = NpcOpIdle
  /\ game = NewGame /\ gameOp = GameOpIdle
  /\ pm = NewPriorityManager /\ pmOp = PmIdle
  /\ player = NewPlayer /\ playerOp = PlayerOpIdle
  /\ dm = NewDisplayManager /\ dmOp = DmIdle
  /\ gs = GsIdle /\ gsOp = GsOpIdle
  /\ card = CardIdle /\ cardOp = CardOpIdle
  /\ dlg = Absent /\ dlgOp = DlgOpIdle
  /\ mack = NewMack(FALSE) /\ mackOp = MackOpIdle

NextTick == Vit_Tick

SpecTick == InitTick /\ [][NextTick]_vars

NextNpc ==
  \/ \E distance \in 0..6, playerHidden \in BOOLEAN, inFront \in BOOLEAN,
        noise \in {"normal", "loud"} :
          NPC_DetectPlayer(distance, playerHidden, inFront, noise)
  \/ NPC_Tick
  \/ \E amount \in {20, 40} : NPC_TakeDamage(amount)
  \/ NPC_Subdue

SpecNpc == InitAll /\ [][NextNpc]_vars

NextPriority ==
  \/ \E state \in PrioStates, environments \in PrioEnvironments, npcs \in PrioNpcs :
        PM_Evaluate(state, environments, npcs)
  \/ \E state \in PrioStates, environments \in PrioEnvironments, npcs \in PrioNpcs :
        PM_GetTopPriority(state, environments, npcs)
  \/ PM_InvalidateCache
  \/ PM_TimePasses

SpecPriority == InitAll /\ [][NextPriority]_vars

\* Room changes, flight and takedowns under the ambient detection checks.
EscalationVerbs == {"move", "flee"}

NextEscalation ==
  \/ \E verb \in EscalationVerbs : \E target \in TargetsOf(verb), roll \in RollsOf(verb) :
        Game_ExecuteAction(verb, target, roll)
  \/ Game_DialogueEnded
  \/ Game_GraceTimer
  \/ Game_LockTimer
  \/ Game_TimePasses
  \/ \E rolls \in [NpcIds -> Rolls] : Game_Frame(rolls)

SpecEscalation == InitAll /\ [][NextEscalation]_vars

\* The verbs that name a room or an NPC, with present and absent targets.
TargetVerbs == {"move", "sneak", "talk", "subdue", "attack"}

NextTargets ==
  \/ \E verb \in TargetVerbs : \E target \in TargetsOf(verb), roll \in RollsOf(verb) :
        Game_ExecuteAction(verb, target, roll)
  \/ Game_GraceTimer
  \/ Game_TimePasses

SpecTargets == InitAll /\ [][NextTargets]_vars

\* The player walks in on the guard and subdues it while the loop runs.
SubdueVerbs == {"move", "subdue"}

NextSubdue ==
  \/ \E verb \in SubdueVerbs : \E target \in TargetsOf(verb), roll \in RollsOf(verb) :
        Game_ExecuteAction(verb, target, roll)
  \/ Game_GraceTimer
  \/ Game_LockTimer
  \/ Game_TimePasses
  \/ \E rolls \in [NpcIds -> Rolls] : Game_Frame(rolls)

SpecSubdue == InitAll /\ [][NextSubdue]_vars

\* The player walks and talks while the loop runs; dialogues open, fail and end.
NextDialogue ==
  \/ \E target \in RoomTargets : Game_ExecuteAction("move", target, 0)
  \/ \E target \in NpcTargets : Dlg_Talk(target)
  \/ \E npcId \in NpcIds : Dlg_Failed(npcId)
  \/ Dlg_Ended
  \/ Game_GraceTimer
  \/ Game_LockTimer
  \/ Game_TimePasses
  \/ \E rolls \in [NpcIds -> Rolls] : Dlg_Frame(rolls)

SpecDialogue == InitAll /\ [][NextDialogue]_vars

\* A Mack with or without an LLM endpoint, before the first contact.
InitMack ==
  /\ mm = NewModeManager /\ mmOp = MmIdle
  /\ vit = VitIdle /\ vitOp = VitOpIdle("modifyVital", "health")
  /\ npc = NpcIdle /\ npcOp = NpcOpIdle
  /\ game = NewGame /\ gameOp = GameOpIdle
  /\ pm = NewPriorityManager /\ pmOp = PmIdle
  /\ player = NewPlayer /\ playerOp = PlayerOpIdle
  /\ dm = NewDisplayManager /\ dmOp = DmIdle
  /\ gs = GsIdle /\ gsOp = GsOpIdle
  /\ card = CardIdle /\ cardOp = CardOpIdle
  /\ dlg = Absent /\ dlgOp = DlgOpIdle
  /\ \E llmEnabled \in BOOLEAN : mack = NewMack(llmEnabled)
  /\ mackOp = MackOpIdle

NextMack ==
  \/ \E rolled \in SobrietyRolls : Mack_Contact(rolled)
  \/ Mack_Resume
  \/ Mack_Tick

SpecMack == InitMack /\ [][NextMack]_vars

\* An NPC whose mission data gives it a scripted awareness.
ScriptedAwareness == {"allied", "neutral"}

InitScripted ==
  /\ mm = NewModeManager /\ mmOp = MmIdle
  /\ vit = VitIdle /\ vitOp = VitOpIdle("modifyVital", "health")
  /\ \E awareness \in ScriptedAwareness :
       /\ npc = NewNPC("npc", "civilian", "office-floor", Pt(80), awareness, Null)
       /\ npcOp = [op |-> "new", before |-> awareness]
  /\ game = NewGame /\ gameOp = GameOpIdle
  /\ pm = NewPriorityManager /\ pmOp = PmIdle
  /\ player = NewPlayer /\ playerOp = PlayerOpIdle
  /\ dm = NewDisplayManager /\ dmOp = DmIdle
  /\ gs = GsIdle /\ gsOp = GsOpIdle
  /\ card = CardIdle /\ cardOp = CardOpIdle
  /\ dlg = Absent /\ dlgOp = DlgOpIdle
  /\ mack = NewMack(FALSE) /\ mackOp = MackOpIdle

\* Suspicion increases and decay ticks only.
NextScripted ==
  \/ \E distance \in 0..6, playerHidden \in BOOLEAN, inFront \in BOOLEAN,
        noise \in {"normal", "loud"} :
          NPC_DetectPlayer(distance, playerHidden, inFront, noise)
  \/ NPC_Tick

SpecScripted == InitScripted /\ [][NextScripted]_vars

NextPlayer ==
  \/ \E vital \in VitalNames, delta \in PlayerDeltas : Player_ModifyVital(vital, delta)
  \/ Player_Tick
  \/ \E hidden \in BOOLEAN : Player_SetHidden(hidden)

SpecPlayer == InitAll /\ [][NextPlayer]_vars

NextDisplay ==
  \/ \E conditionId \in ConditionIds : DM_ConditionAdded(conditionId)
  \/ \E conditionId \in ConditionIds : DM_ConditionRemoved(conditionId)

SpecDisplay == InitAll /\ [][NextDisplay]_vars

\* A DisplayManager with one registered card, before the first frame.
InitCards ==
  /\ mm = NewModeManager /\ mmOp = MmIdle
  /\ vit = VitIdle /\ vitOp = VitOpIdle("modifyVital", "health")
  /\ npc = NpcIdle /\ npcOp = NpcOpIdle
  /\ game = NewGame /\ gameOp = GameOpIdle
  /\ pm = NewPriorityManager /\ pmOp = PmIdle
  /\ player = NewPlayer /\ playerOp = PlayerOpIdle
  /\ dm = NewDisplayManager /\ dmOp = DmIdle
  /\ gs = GsIdle /\ gsOp = GsOpIdle
  /\ \E type \in CardTypes, state \in CardConfigStates, active \in BOOLEAN,
        actionType \in ActionTypes :
       /\ (type = "action-palette") \/ (actionType = Null)
       /\ card = [card |-> [NewCard(type, state, active) EXCEPT
                              !.data.actionType = actionType],
                  priorities |-> <<>>]
  /\ cardOp = CardOpIdle
  /\ dlg = Absent /\ dlgOp = DlgOpIdle
  /\ mack = NewMack(FALSE) /\ mackOp = MackOpIdle

NextCards ==
  \E deltaTime \in FrameTimes, priorities \in PriorityLists :
     Card_Frame(deltaTime, priorities)

\* The loop keeps running: requestAnimationFrame schedules every next frame.
SpecCards == InitCards /\ [][NextCards]_vars /\ WF_vars(NextCards)

NextSave ==
  \/ \E vital \in SaveVitals, delta \in SaveDeltas : GS_UpdateVitals(vital, delta)
  \/ \E key \in SaveFlags : GS_SetFlag(key)
  \/ GS_CompleteObjective("obj-extract-logs")
  \/ \E vital \in SaveVitals, delta \in SaveDeltas : GS_ModifyVital(vital, delta)
  \/ GS_Serialize
  \/ GS_Deserialize
  \/ GS_SerializeVitals
  \/ GS_DeserializeVitals

SpecSave == InitAll /\ [][NextSave]_vars

NextGame ==
  \/ \E verb \in GameVerbs : \E target \in TargetsOf(verb), roll \in RollsOf(verb) :
        Game_ExecuteAction(verb, target, roll)
  \/ \E npcId \in NpcIds \cup {Null} : Game_DialogueFailed(npcId)
  \/ Game_DialogueEnded
  \/ Game_AlarmTriggered
  \/ Game_GraceTimer
  \/ Game_LockTimer
  \/ Game_TimePasses
  \/ \E rolls \in [NpcIds -> Rolls] : Game_Frame(rolls)

Spec == InitAll /\ [][NextGame]_vars

\* =================================================================== claims
\* C1: no detection check runs within DETECTION_GRACE_PERIOD ms of the latest
\* room entry: a frame that runs checkNPCDetection does so at least 3000 ms
\* after the latest enterRoom, also when an earlier entry's timer was pending.
C1_GracePeriod ==
  gameOp.op = "frame" /\ gameOp.check.ran
    => gameOp.check.sinceEntry >= DETECTION_GRACE_PERIOD

\* C2: a tick of an NPC whose awareness is alert or hostile (suspicion decay,
\* no player action) leaves the awareness alert or hostile.
C2_DecayKeepsAlert ==
  npcOp.op = "tick" /\ npcOp.before \in {"alert", "hostile"}
    => npc.awareness \in {"alert", "hostile"}

\* C3: while the lock timer of a successful transitionTo is pending, every
\* transitionTo (direct, or made by returnToPrevious or popMode) returns
\* false, the lock is held, and the current mode is the target of that
\* successful transition.
C3_ModeLock ==
  /\ mmOp.op \in {"transitionTo", "returnToPrevious", "popMode"} /\ mmOp.lockPending
       => mmOp.ret = FALSE
  /\ mm.lockTimers # {} => mm.transitionLocked /\ mm.currentMode = mmOp.won

\* A transitionTo naming another recognised mode was refused while the lock
\* timer was pending.
C3_Witness ==
  /\ mmOp.op = "transitionTo" /\ mmOp.lockPending
  /\ mmOp.target \in DOMAIN MODES /\ mmOp.target # mm.currentMode
  /\ mmOp.ret = FALSE
  /\ mm.lockTimers # {}

\* C4: a transitionTo that returns false changed nothing of the manager
\* (mode, previous mode, stack, lock, timers) and emitted no event, with or
\* without pushToStack.
C4_RejectedNoEffect ==
  mmOp.op = "transitionTo" /\ mmOp.ret = FALSE
    => ~mmOp.changed /\ mmOp.events = <<>>

\* A transitionTo asking for pushToStack and naming a recognised other mode
\* was rejected because the lock was held.
C4_Witness ==
  /\ mmOp.op = "transitionTo" /\ mmOp.ret = FALSE /\ mmOp.push
  /\ mm.transitionLocked
  /\ mmOp.target \in DOMAIN MODES /\ mmOp.target # mm.currentMode

\* C5: however often handleGameOver is invoked, the mission-failed overlay is
\* shown at most once and the game_over flag is set at most once; it is shown
\* exactly once as soon as the handler has been invoked.
C5_GameOverOnce ==
  /\ game.failedShown <= 1 /\ game.gameOverSets <= 1
  /\ game.gameOverCalls >= 1 => game.failedShown = 1 /\ game.gameOverSets = 1
  /\ hasFlag(game.state, "game_over") <=> game.failedShown = 1

\* handleGameOver was invoked twice or more and showed one overlay.
C5_Witness ==
  game.gameOverCalls >= 2 /\ game.failedShown = 1 /\ hasFlag(game.state, "game_over")

\* C6: once game_over or mission_complete is set, no frame is scheduled
\* (animationId is null), so no further update runs.
C6_LoopHalted ==
  hasFlag(game.state, "game_over") \/ hasFlag(game.state, "mission_complete")
    => game.animationId = Null

\* C7: at the end of a tick (a frame's update) of a mission not yet
\* completed, health <= 0, detection = 100 or alarm_triggered implies
\* game_over.
C7_TerminalIsFatal ==
  gameOp.op = "frame" /\ ~hasFlag(game.state, "mission_complete")
    /\ (\/ game.state.player.vitals.health <= 0
        \/ game.state.player.vitals.detection = Pt(100)
        \/ hasFlag(game.state, "alarm_triggered"))
    => hasFlag(game.state, "game_over")

\* C8: no frame runs checkNPCDetection while the mode is combat or dialogue.
C8_NoCheckInCombat ==
  gameOp.op = "frame" /\ gameOp.check.ran
    => gameOp.check.mode \notin {"combat", "dialogue"}

\* C9: an executeAction whose verb is outside the active mode's
\* allowedActions changes nothing of the game.
C9_WhitelistEnforced ==
  gameOp.op = "executeAction" /\ gameOp.changed => gameOp.allowed

\* The vital under test and its upper bound.
VitalValue ==
  IF vitOp.op = "modifyVital" THEN vit.sys[vitOp.vital]
  ELSE vit.state.player.vitals[vitOp.vital]

VitalBound ==
  IF vitOp.op = "modifyVital" /\ vitOp.vital = "health" THEN vit.sys.maxHealth
  ELSE IF vitOp.op = "modifyVital" /\ vitOp.vital = "stamina" THEN vit.sys.maxStamina
  ELSE Pt(100)

\* C10: after every modifyVital and updateVitals the vital lies in [0, max]
\* and is the value returned; a delta of +1000 leaves exactly max, a delta of
\* -1000 exactly 0.
C10_Clamped ==
  vitOp.calls > 0 =>
    /\ 0 <= VitalValue /\ VitalValue <= VitalBound
    /\ vitOp.ret = VitalValue
    /\ vitOp.amount = 1000 => VitalValue = VitalBound
    /\ vitOp.amount = -1000 => VitalValue = 0

\* +1000 was applied and then -1000, on a system whose maximum is not 100.
C10_Witness ==
  /\ vitOp.calls = 2 /\ vitOp.prevAmount = 1000 /\ vitOp.amount = -1000
  /\ VitalValue = 0
  /\ vitOp.op = "modifyVital" /\ vitOp.vital = "health" /\ vit.sys.maxHealth = Pt(60)

\* Position of an item in a list of items of distinct types.
IndexIn(list, item) == CHOOSE k \in DOMAIN list : list[k] = item

TierRank(item) ==
  CASE item.tier = PRIORITY_TIERS.IMMEDIATE -> 1
    [] item.tier = PRIORITY_TIERS.ENVIRONMENTAL -> 2
    [] item.tier = PRIORITY_TIERS.SELF -> 3
    [] OTHER -> 0

\* C11: in every list evaluate() returns, the combat item stands before the
\* objective-near item, every Immediate item before every Environmental
\* item, and every Environmental item before every Self item.
C11_TierOrder ==
  pmOp.op = "evaluate" =>
    \A i, j \in DOMAIN pmOp.returned :
      LET a == pmOp.returned[i]
          b == pmOp.returned[j]
      IN (\/ a.type = "combat" /\ b.type = "objective-near"
          \/ TierRank(a) > 0 /\ TierRank(b) > 0 /\ TierRank(a) < TierRank(b))
         => i < j

\* A fresh evaluation of a snapshot with a hostile engaged NPC and an
\* objective in the room returned both items.
C11_Witness ==
  /\ pmOp.op = "evaluate" /\ ~pmOp.cached
  /\ \E i, j \in DOMAIN pmOp.returned :
       pmOp.returned[i].type = "combat" /\ pmOp.returned[j].type = "objective-near"

\* C20: the list evaluate() returns holds exactly the items appended, in
\* non-increasing order of weight, items of equal weight in append order.
C20_SortedStable ==
  pmOp.op = "evaluate" =>
    /\ Len(pmOp.returned) = Len(pmOp.appended)
    /\ {pmOp.returned[i] : i \in DOMAIN pmOp.returned}
         = {pmOp.appended[i] : i \in DOMAIN pmOp.appended}
    /\ \A i, j \in DOMAIN pmOp.returned :
         i < j =>
           /\ pmOp.returned[i].weight >= pmOp.returned[j].weight
           /\ pmOp.returned[i].weight = pmOp.returned[j].weight
                => IndexIn(pmOp.appended, pmOp.returned[i])
                     < IndexIn(pmOp.appended, pmOp.returned[j])

\* A fresh evaluation whose sort moved items: the overlay (90) was appended
\* first and the objective (70) behind the nearby NPC (60).
C20_Witness ==
  /\ pmOp.op = "evaluate" /\ ~pmOp.cached
  /\ pmOp.returned # pmOp.appended
  /\ Len(pmOp.returned) >= 6
  /\ pmOp.appended[1].type = "condition-overlay"


\* The NPCs standing in the player's room.
NpcsHere(g) == {id \in NpcIds : g.state.npcs[id].location = g.state.currentEnvironment}

\* A frame whose detection check raised detection into [80, 100).
CheckReached80(g, op) ==
  /\ op.op = "frame" /\ op.check.increments > 0
  /\ g.state.player.vitals.detection >= Pt(80)
  /\ g.state.player.vitals.detection < Pt(100)

WinCondition(g) ==
  /\ "access-logs" \in g.state.player.equipment
  /\ hasFlag(g.state, "logs_acquired")
  /\ g.state.currentEnvironment = "lobby-main"

\* C13: the mission-complete overlay is shown at most once, however many
\* frames re-run the win check, and it has been shown once after any frame
\* that ends with the logs held, logs_acquired set and the player in
\* lobby-main (the mission not having failed).
C13_CompleteOnce ==
  /\ game.completeShown <= 1
  /\ hasFlag(game.state, "mission_complete") <=> game.completeShown = 1
  /\ gameOp.op = "frame" /\ WinCondition(game) /\ ~hasFlag(game.state, "game_over")
       => game.completeShown = 1

\* A frame re-ran the win check with the mission already complete and the
\* win condition still true.
C13_Witness ==
  /\ gameOp.op = "frame" /\ gameOp.wasComplete
  /\ WinCondition(game) /\ game.completeShown = 1


\* The most recently pushed mode of a non-empty stack.
TopOf(stack) == stack[Len(stack)]

\* C14: popMode() on a non-empty stack removes the most recently pushed mode
\* and, outside the lock window, makes it the current mode (unless it already
\* is); returnToPrevious() leaves the stack as it is, moves only to
\* previousMode, and its outcome is the same whatever the stack holds.
C14_PopAndReturn ==
  [][/\ mmOp'.op = "popMode" /\ Len(mm.modeStack) > 0
          => /\ mm'.modeStack = SubSeq(mm.modeStack, 1, Len(mm.modeStack) - 1)
             /\ ~mm.transitionLocked /\ TopOf(mm.modeStack) # mm.currentMode
                  => /\ mmOp'.ret = TRUE
                     /\ mm'.currentMode = TopOf(mm.modeStack)
                     /\ mm'.previousMode = mm.currentMode
     /\ mmOp'.op = "returnToPrevious"
          => /\ mm'.modeStack = mm.modeStack
             /\ mm'.currentMode \in {mm.currentMode, mm.previousMode}
             /\ mmOp'.ret = TRUE => mm'.currentMode = mm.previousMode
             /\ LET bare == returnToPrevious([mm EXCEPT !.modeStack = <<>>])
                IN /\ bare.ret = mmOp'.ret
                   /\ bare.self.currentMode = mm'.currentMode
                   /\ bare.self.previousMode = mm'.previousMode]_vars

\* After exploration and stealth were pushed, popMode left combat for stealth
\* and took stealth off the stack.
C14_Witness ==
  /\ mmOp.op = "popMode" /\ mmOp.ret = TRUE
  /\ mm.currentMode = "stealth" /\ mm.previousMode = "combat"
  /\ mm.modeStack = <<"exploration">>


\* C15: whatever the number of frames, checkNPCDetection runs only when more
\* than DETECTION_CHECK_INTERVAL has passed since the previous run.
C15_CheckInterval ==
  gameOp.op = "frame" /\ gameOp.check.ran
    => gameOp.check.sinceCheck > DETECTION_CHECK_INTERVAL

\* A second successful check: detection 10 is two increments of 5.
C15_Witness ==
  /\ gameOp.op = "frame" /\ gameOp.check.ran /\ gameOp.check.increments > 0
  /\ game.state.player.vitals.detection = Pt(10)
  /\ gameOp.check.sinceCheck > DETECTION_CHECK_INTERVAL


\* One of the three conditions of mission failure holds.
FailureCondition(g) ==
  \/ g.state.player.vitals.health <= 0
  \/ g.state.player.vitals.detection >= Pt(100)
  \/ hasFlag(g.state, "alarm_triggered")

\* C16: any step that sets game_over ends with health at 0 or below,
\* detection at 100 or alarm_triggered set; a frame whose detection check
\* spotted the player and left detection below 100 (health positive, no alarm)
\* does not set it.
C16_FailureOnlyWhenFatal ==
  [][/\ ~hasFlag(game.state, "game_over") /\ hasFlag(game'.state, "game_over")
          => FailureCondition(game')
     /\ (/\ gameOp'.op = "frame" /\ gameOp'.check.increments > 0
         /\ ~hasFlag(game.state, "game_over") /\ ~FailureCondition(game'))
          => ~hasFlag(game'.state, "game_over")]_vars

\* The detection check that took detection from 95 to 100 failed the
\* mission, with health positive and no alarm.
C16_Witness ==
  /\ gameOp.op = "frame" /\ gameOp.check.increments > 0
  /\ hasFlag(game.state, "game_over")
  /\ game.state.player.vitals.detection = Pt(100)
  /\ game.state.player.vitals.health > 0
  /\ ~hasFlag(game.state, "alarm_triggered")


\* The target a verb names is not in the mission: an unknown room for move
\* and sneak, an unknown NPC for talk, subdue and attack.
AbsentTarget(verb, target) ==
  \/ verb \in {"move", "sneak"} /\ target \notin DOMAIN ENVIRONMENTS
  \/ verb \in {"talk", "subdue", "attack"} /\ target \notin NpcIds

\* C17: an executeAction whose target room or NPC is absent changes nothing
\* of the game.
C17_AbsentTargetNoOp ==
  gameOp.op = "executeAction" /\ gameOp.changed
    => ~AbsentTarget(gameOp.verb, gameOp.target)


\* The conditions the vitals call for: stress above 70, stress above 90,
\* health below 30, stamina below 20.
ConditionsFor(v) ==
  (IF v.stress > Pt(70) THEN {"high-stress"} ELSE {})
  \cup (IF v.stress > Pt(90) THEN {"panicked"} ELSE {})
  \cup (IF v.health < Pt(30) THEN {"injured"} ELSE {})
  \cup (IF v.stamina < Pt(20) THEN {"exhausted"} ELSE {})

\* C18: after every modifyVital and every tick the four vital-derived
\* conditions in the vitals' set are exactly those the vitals call for, and
\* after every Player.tick so are those in the player's own set.
C18_ConditionsFollowVitals ==
  /\ playerOp.op \in {"modifyVital", "tick"}
       => player.vitals.conditions \cap AutoConditions = ConditionsFor(player.vitals)
  /\ playerOp.op = "tick"
       => player.conditions \cap AutoConditions = ConditionsFor(player.vitals)

\* The sum of the contributions of the active conditions to a channel.
RECURSIVE SumOver(_, _)
SumOver(conditions, k) ==
  IF conditions = {} THEN 0
  ELSE LET c == CHOOSE x \in conditions : TRUE
       IN (IF k \in DOMAIN EffectMap[c] THEN EffectMap[c][k] ELSE 0)
          + SumOver(conditions \ {c}, k)

ActiveConditions == {dm.activeEffects[i] : i \in DOMAIN dm.activeEffects}

\* C19: after every condition:added and condition:removed notification each
\* of shake, blur, darken and pulse is min(1, the sum of the contributions of
\* the active conditions), hence between 0 and 1.
C19_ModifiersAreCappedSums ==
  dmOp.op \in {"condition:added", "condition:removed"}
    => \A k \in Channels :
         /\ dm.modifiers[k] = Min(Full, SumOver(ActiveConditions, k))
         /\ dm.modifiers[k] >= 0 /\ dm.modifiers[k] <= Full

\* The removal of one of three conditions left pulse capped at 1 (the two
\* that remain sum to 1.3) and shake at their sum, 0.9.
C19_Witness ==
  /\ dmOp.op = "condition:removed" /\ dmOp.conditionId = "injured"
  /\ ActiveConditions = {"high-stress", "panicked"}
  /\ dm.modifiers["pulse"] = Full /\ dm.modifiers["shake"] = 9


HasType(list, type) == \E i \in DOMAIN list : list[i].type = type

\* C21: every list evaluate() returns, fresh or cached, holds the inventory
\* item (weight 20) and the vitals item (weight 15), and getTopPriority()
\* returns an item, never null.
C21_SelfItemsAlways ==
  /\ pmOp.op \in {"evaluate", "getTopPriority"}
       => /\ \E i \in DOMAIN pmOp.returned :
               pmOp.returned[i].type = "inventory" /\ pmOp.returned[i].weight = 20
          /\ \E i \in DOMAIN pmOp.returned :
               pmOp.returned[i].type = "vitals" /\ pmOp.returned[i].weight = 15
  /\ pmOp.op = "getTopPriority"
       => pmOp.top # Absent /\ pmOp.top[1] = pmOp.returned[1]

\* In a world with nothing else to show, the list is the two Self items and
\* the top priority is the inventory.
C21_Witness ==
  /\ pmOp.op = "getTopPriority" /\ ~pmOp.cached
  /\ Len(pmOp.returned) = 2
  /\ pmOp.top # Absent /\ pmOp.top[1].type = "inventory"


C23_RejectedPopNoEffect ==
  mmOp.op \in {"popMode", "returnToPrevious"} /\ mmOp.ret = FALSE
    => ~mmOp.changed

\* C24: under the game loop, when the state resolved for the registered card
\* keeps being the same target and differs from the card's state, the card
\* eventually completes its transition and shows the target.
C24_TransitionCompletes ==
  \A target \in CardConfigStates :
     <>[](cardOp.op = "frame" /\ cardOp.resolved = target) => <>(card.card.state = target)

\* C25: unconscious is terminal for an NPC. A frame of the game loop (the
\* detection check and the NPC ticks) leaves an unconscious NPC's awareness
\* as it was, does not make it engaged, opens no dialogue or combat for it,
\* and raises no detection while every NPC in the room is unconscious.
C25_UnconsciousIsTerminal ==
  [][gameOp'.op = "frame" =>
       /\ \A id \in NpcIds :
            ~Conscious(game.state.npcs[id]) =>
               /\ game'.state.npcs[id].awareness = game.state.npcs[id].awareness
               /\ game'.state.npcs[id].engaged => game.state.npcs[id].engaged
       /\ (\A id \in InRoom(game, game.state.currentEnvironment) :
              ~Conscious(game.state.npcs[id]))
            => /\ game'.state.player.vitals.detection = game.state.player.vitals.detection
               /\ game'.modeManager.currentMode = game.modeManager.currentMode]_vars

\* C26: when a dialogue ends while no transition lock is pending, the active
\* mode becomes the mode that was active immediately before that dialogue
\* began, whatever transitions occurred while it was open.
C26_EndRestoresModeBefore ==
  dlgOp.op = "ended" /\ ~dlgOp.locked => dlgOp.after = dlgOp.before

\* C27: the two terminal flags are mutually exclusive: in no reachable state
\* are game_over and mission_complete both set.
C27_TerminalFlagsExclusive ==
  ~(hasFlag(game.state, "game_over") /\ hasFlag(game.state, "mission_complete"))

\* C28: advisor requests are never re-entrant: a contact is accepted only
\* while no request is in flight, so at most one request is in flight, and
\* every contact answered on the spot leaves a cooldown running.
C28_NoReentrantRequests ==
  /\ mack.inFlight <= 1
  /\ mackOp.op = "handleContact" /\ mackOp.ret # "busy" => mackOp.inFlightBefore = 0
  /\ mackOp.op = "handleContact" /\ mackOp.ret = "answered" => mack.cooldown > 0

\* C29: no automatic step lowers an NPC's awareness from alert or hostile:
\* an NPC that is alert or hostile before a frame (its detection check and
\* its NPC ticks) is still alert or hostile after it.
C29_FrameKeepsAlert ==
  [][gameOp'.op = "frame" =>
       \A id \in NpcIds :
          game.state.npcs[id].awareness \in {"alert", "hostile"}
            => game'.state.npcs[id].awareness \in {"alert", "hostile"}]_vars

\* C30: the player's current room changes only to the destination of an exit
\* of the current room, and through a locked exit only while the player holds
\* a keycard of at least the exit's keycardLevel.
C30_RoomChangesThroughExits ==
  [][game'.state.currentEnvironment # game.state.currentEnvironment =>
       LET found == ExitTo(game.state.currentEnvironment, game'.state.currentEnvironment)
       IN /\ Len(found) > 0
          /\ found[1].locked =>
               \E item \in game.state.player.equipment :
                  KeycardLevel(item) > 0 /\ KeycardLevel(item) >= found[1].keycardLevel]_vars

\* C31: every successful transitionTo(target) sets previousMode to the
\* outgoing mode, pushes the outgoing mode onto the stack iff pushToStack was
\* given, sets the lock with one timer of the lock duration (300 ms by
\* default), and emits exactly one mode:changed carrying the target mode's
\* card-state map; the lock is held while the timer is pending and released
\* once it has fired.
C31_SuccessfulTransition ==
  /\ [][mmOp'.op = "transitionTo" /\ mmOp'.ret = TRUE =>
          /\ mm'.currentMode = mmOp'.target
          /\ mm'.previousMode = mm.currentMode
          /\ mm'.modeStack = IF mmOp'.push THEN Append(mm.modeStack, mm.currentMode)
                             ELSE mm.modeStack
          /\ mm'.transitionLocked
          /\ mm'.lockTimers = {IF mmOp'.lockDuration = 0 THEN DEFAULT_LOCK_DURATION
                               ELSE mmOp'.lockDuration}
          /\ Len(mmOp'.events) = 1
          /\ mmOp'.events[1].type = "mode:changed"
          /\ mmOp'.events[1].from = mm.currentMode
          /\ mmOp'.events[1].to = mmOp'.target
          /\ mmOp'.events[1].cardStates = MODES[mmOp'.target].cardStates]_vars
  /\ [](mm.transitionLocked <=> mm.lockTimers # {})

\* A transitionTo with pushToStack and the default lock duration succeeded
\* from a mode other than the initial one.
C31_Witness ==
  /\ mmOp.op = "transitionTo" /\ mmOp.ret = TRUE /\ mmOp.push /\ mmOp.lockDuration = 0
  /\ mm.previousMode # "exploration"
  /\ mm.lockTimers = {DEFAULT_LOCK_DURATION}

\* C32: a suspicious NPC that is not engaged is unaware after the tick that
\* leaves its suspicion below 30, and a tick makes a suspicious NPC unaware
\* only if its suspicion is below 30 and it is not engaged.
C32_SuspiciousDecaysAt30 ==
  npcOp.op = "tick" /\ npcOp.before = "suspicious" /\ canAct(npc.vitals)
    => /\ ~npc.engaged /\ npc.vitals.suspicion < 30 => npc.awareness = "unaware"
       /\ npc.awareness = "unaware" => npc.vitals.suspicion < 30 /\ ~npc.engaged

\* C33: whenever the condition-overlay item is in the list evaluate()
\* returns, it is the first element of that list.
C33_OverlayFirst ==
  pmOp.op = "evaluate" /\ HasType(pmOp.returned, "condition-overlay")
    => pmOp.returned[1].type = "condition-overlay"

\* C34: after reset() returns, the current mode is exploration, the history
\* stack is empty and previousMode is null, whatever the state before.
C34_ResetRestoresInitial ==
  mmOp.op = "reset"
    => /\ mm.currentMode = "exploration"
       /\ mm.modeStack = <<>>
       /\ mm.previousMode = Null

\* C35: allied and neutral lie outside the suspicion path: no suspicion
\* increase or decay tick gives an NPC the awareness allied or neutral, and
\* none changes the awareness of an NPC that is allied or neutral.
C35_ScriptedOutsideSuspicion ==
  npcOp.op \in {"detectPlayer", "tick"}
    => /\ npc.awareness \in ScriptedAwareness => npcOp.before = npc.awareness
       /\ npcOp.before \in ScriptedAwareness => npc.awareness = npcOp.before

\* C36: engagement is triggered at most once per NPC per episode: a frame
\* that finds an NPC's engagement already handled (no flee or room entry has
\* reset it) does not engage that NPC, and when every NPC of the room is
\* handled the frame makes no dialogue or combat transition, whatever its
\* detection check does.
C36_EngagedOncePerEpisode ==
  [][gameOp'.op = "frame" =>
       /\ \A id \in NpcIds :
            game.state.npcs[id].handled /\ game'.state.npcs[id].engaged
              => game.state.npcs[id].engaged
       /\ (\A id \in InRoom(game, game.state.currentEnvironment) :
              game.state.npcs[id].handled)
            => game'.modeManager = game.modeManager]_vars

\* A detection check raised detection to 85 or more for an NPC whose
\* engagement had been handled and that is no longer engaged.
C36_Witness ==
  /\ gameOp.op = "frame" /\ gameOp.check.ran /\ gameOp.check.increments > 0
  /\ game.state.player.vitals.detection >= Pt(85)
  /\ ~hasFlag(game.state, "game_over")
  /\ \E id \in InRoom(game, game.state.currentEnvironment) :
        game.state.npcs[id].handled /\ ~game.state.npcs[id].engaged

\* C37: each successful detection roll raises player detection by exactly
\* DETECTION_INCREMENT, capped at 100: a frame whose check made k successful
\* rolls leaves detection at min(100, before + 5k), and (one NPC, one roll)
\* never takes a detection below 30 to 100.
C37_IncrementalDetection ==
  [][gameOp'.op = "frame" =>
       /\ game'.state.player.vitals.detection =
            Min(Pt(100), game.state.player.vitals.detection
                           + Pt(DETECTION_INCREMENT) * gameOp'.check.increments)
       /\ gameOp'.check.increments <= 1 /\ game.state.player.vitals.detection < Pt(30)
            => game'.state.player.vitals.detection < Pt(100)]_vars

\* A frame's check made one successful roll while detection was below 30.
C37_Witness ==
  /\ gameOp.op = "frame" /\ gameOp.check.ran /\ gameOp.check.increments = 1
  /\ game.state.player.vitals.detection = Pt(DETECTION_INCREMENT)

\* C38: evaluate() never returns both a combat item and an npc-interaction
\* item, and never returns an npc-nearby item when an engaged NPC is in the
\* current room of the state it was given.
C38_ExclusiveNpcItems ==
  pmOp.op = "evaluate"
    => /\ ~(HasType(pmOp.returned, "combat") /\ HasType(pmOp.returned, "npc-interaction"))
       /\ pmOp.engagedHere => ~HasType(pmOp.returned, "npc-nearby")

\* C39: one VitalsSystem.tick() lowers health by the bleed rate (2) exactly
\* when the injured condition is active, lowers stress by 1 exactly when
\* detection is below 60, and raises stamina by 0.5, each clamped to its
\* range; stress never falls through tick while detection is 60 or more, and
\* a tick of an injured actor with health left lowers health and leaves the
\* actor injured, so health reaches 0 after finitely many ticks.
C39_TickEffects ==
  [][vitOp'.op = "tick" =>
       LET v == vit.sys
           w == vit'.sys
       IN /\ w.health = IF "injured" \in v.conditions
                         THEN Max(0, v.health - Pt(2)) ELSE v.health
          /\ w.stress = IF v.detection < Pt(60)
                         THEN Max(0, v.stress - Pt(1)) ELSE v.stress
          /\ w.stamina = Min(v.maxStamina, v.stamina + 1)
          /\ (v.detection >= Pt(60) => w.stress >= v.stress)
          /\ (("injured" \in v.conditions /\ v.health > 0)
                => (w.health < v.health /\ "injured" \in w.conditions))]_vars

\* An injured actor at the threshold detection has bled to health 0 with its
\* stress still where the config put it.
C39_Witness ==
  /\ vitOp.op = "tick" /\ vitOp.calls = 2
  /\ "injured" \in vit.sys.conditions /\ vit.sys.health = 0
  /\ vit.sys.detection = Pt(60) /\ vit.sys.stress = Pt(75)

\* C40: for an action-palette surface the state resolved in a frame follows
\* the decision table: under a top priority of npc-interaction an environment
\* surface resolves to collapsed and a social or combat surface to expanded;
\* under a top priority of environment-actions an environment surface
\* resolves to expanded and a social or combat surface to collapsed.
C40_PaletteDecisionTable ==
  (cardOp.op = "frame" /\ card.card.type = "action-palette" /\ card.priorities # <<>>)
    => LET top == card.priorities[1].type
           actionType == card.card.data.actionType
       IN /\ ((top = "npc-interaction" /\ actionType = "environment")
                => cardOp.resolved = "collapsed")
          /\ ((top = "npc-interaction" /\ actionType \in {"social", "combat"})
                => cardOp.resolved = "expanded")
          /\ ((top = "environment-actions" /\ actionType = "environment")
                => cardOp.resolved = "expanded")
          /\ ((top = "environment-actions" /\ actionType \in {"social", "combat"})
                => cardOp.resolved = "collapsed")

====
